---- MODULE Spec2Model ----
(***************************************************************************)
(* Model of the JewelHuntrix scan scheduler (server/scheduler.ts), the     *)
(* scan of one search (server/services/scanner.ts), the manual trigger     *)
(* route (server/routes.ts) and the retry controller of the scraper        *)
(* (withRetry, scrapeVintedSearch, handle403Recovery).                     *)
(*                                                                         *)
(* Specifications:                                                         *)
(*   Spec        the scheduler, the trigger route and the scans, with a    *)
(*               clock in minutes;                                         *)
(*   SpecLive    the scheduler running for ever, with fairness;            *)
(*   SpecRetry   one call of scrapeVintedSearch under withRetry, delays    *)
(*               in milliseconds;                                          *)
(*   SpecAlert   the calls of sendTelegramAlert and the rate limiter;      *)
(*   SpecScan    the listings of a scan and the manual analysis;           *)
(*   SpecCookie  the cookie manager;                                       *)
(*   SpecFilter  the request filter of the page;                           *)
(*   SpecFinding the table of findings and their expiry, in days.          *)
(***************************************************************************)
EXTENDS Integers, Sequences, FiniteSets, Bags, TLC

(***************************************************************************)
(* Bounds of the model.                                                    *)
(***************************************************************************)
NumTasks == 2
MaxTime == 30
MaxRouteScans == 1
MaxStarts == 2
MaxPending == 1

(***************************************************************************)
(* Program constants.                                                      *)
(***************************************************************************)
\* search.lastScannedAt is null for a search that was never scanned
NoTime == -1
\* minutesSinceLastScan of a never scanned search (scheduler.ts:77)
Infinity == 1000000
\* 1000 * 60 (scheduler.ts:76)
MsPerMinute == 60000
\* fetch() could not reach the site
NetErr == 0

Tasks == 1..NumTasks
Slots == 0..MaxRouteScans
RouteSlots == 1..MaxRouteScans
SchedSlot == 0

\* SCAN_MIN_INTERVAL_MINUTES / SCAN_MAX_INTERVAL_MINUTES as set in the
\* environment: min < max, min = max and min > max.
\* minutes between two readings of the clock
TickSteps == {15}

EnvConfigs ==
  { [min |-> 15, max |-> 17], [min |-> 16, max |-> 16], [min |-> 17, max |-> 15] }

VARIABLES
  now,                \* Date.now(), in minutes
  cfg,                \* MIN_INTERVAL_MINUTES, MAX_INTERVAL_MINUTES
  db,                 \* search_queries rows: id -> [isActive, lastScannedAt]
  cronJobs,           \* cron jobs registered by startScheduler
  pending,            \* jitter timeouts that have not fired yet
  isRunning,          \* scheduler.ts:5
  spc,                \* where the invocation of runScheduledScans is
  wakeAt,             \* when the setTimeout it awaits resolves
  searches,           \* activeSearches of the cycle (a snapshot of the rows)
  idx,                \* position of the for loop in activeSearches
  processedSearches,  \* scheduler.ts:71
  scans,              \* slot -> the scanSearchQuery call running in it
  decision,           \* history: the last due test of the scheduler
  vetoAt,             \* history: when the health check last failed
  cycleScans,         \* history: scans started by the current cycle
  dropped,            \* history: a trigger was dropped during the current cycle
  lastOk,             \* history: task -> when its last successful scan ended
  priorOk,            \* history: lastOk when the cycle read the rows
  rateLimited         \* history: the scrape of the scan of the cycle ended in a 429 error

VARIABLES
  site,               \* what the site answers to each attempt of the fetch
  rpc,                \* where the call of scrapeVintedSearch is
  i,                  \* loop index of withRetry
  attempts,           \* history: calls of fn
  recoveries,         \* history: calls of handle403Recovery
  recoveryRan,        \* history: handle403Recovery ran in the current attempt
  sessionDelay,       \* the extended delay was taken before the current attempt
  browserOpen,        \* a browser launched by the attempt is open
  pageCookies,        \* cookies of the page of the attempt
  title,              \* page.title() of the page loaded last
  waits,              \* delays of the catch block that ran last
  err,                \* the error the catch block of withRetry holds
  result              \* what scrapeVintedSearch returned, or the error it threw

retryVars == <<site, rpc, i, attempts, recoveries, recoveryRan, sessionDelay,
               browserOpen, pageCookies, title, waits, err, result>>

VARIABLES
  clock,              \* Date.now() of the alert path, in milliseconds
  botReady,           \* bot and TELEGRAM_CHAT_ID are configured
  alerts,             \* TelegramRateLimiter.alerts
  sent,               \* history: the bag of the messages bot.sendMessage delivered
  acall,              \* the calls of sendTelegramAlert: where each one is
  alertReturn         \* history: what the call of sendTelegramAlert that returned last returned

alertVars == <<clock, botReady, alerts, sent, acall, alertReturn>>

VARIABLES
  run,                \* the runs of scanSearchQuery and of the manual analysis
  analyzed,           \* the rows of the table analyzedListings
  analysisCalls,      \* history: calls of analyzeJewelryImages by scans, per listing
  findingsTbl         \* the rows of the table findings

scanVars == <<run, analyzed, analysisCalls, findingsTbl>>

VARIABLES
  sessionFile,        \* what SESSION_FILE holds on disk
  legacyCookie,       \* LEGACY_SESSION_COOKIE
  cookiesLoaded,      \* CookieManager.cookiesLoaded
  sessionData,        \* CookieManager.sessionData
  lpc,                \* where the call of loadCookies is
  firstRead,          \* the cookies loadFromFile returned to the call
  call,               \* history: the last call of loadCookies
  loaded              \* history: what the last call of loadCookies returned

cookieVars == <<sessionFile, legacyCookie, cookiesLoaded, sessionData, lpc,
                firstRead, call, loaded>>

VARIABLES
  targetUrl,          \* searchUrl, as the markers url.includes() finds in it
  navigation,         \* where page.goto(searchUrl) is
  request,            \* the request the handler of page.on('request') got last
  verdict             \* what the handler did with it

filterVars == <<targetUrl, navigation, request, verdict>>

VARIABLES
  today,              \* new Date() of the findings table, in days
  findingRows,        \* the rows of the table findings, with their expiresAt
  listed,             \* history: what getFindings returned, while the table and the day stay
  sweptAt             \* history: the day deleteExpiredFindings ran, while that day lasts

findingVars == <<today, findingRows, listed, sweptAt>>

\* no call of loadCookies yet
NoCookieCall ==
  [state |-> "none", cached |-> FALSE, file |-> [kind |-> "absent"],
   reread |-> [kind |-> "absent"]]

schedVars == <<isRunning, spc, wakeAt, searches, idx, processedSearches>>
histVars == <<decision, vetoAt, cycleScans, dropped, lastOk, priorOk, rateLimited>>
schedAll == <<now, cfg, db, cronJobs, pending, schedVars, scans, histVars>>
vars == <<schedAll, retryVars, alertVars, scanVars, cookieVars, filterVars,
          findingVars>>

\* what the steps of one component leave alone
exceptSched == <<retryVars, alertVars, scanVars, cookieVars, filterVars, findingVars>>
exceptRetry == <<schedAll, alertVars, scanVars, sessionFile, legacyCookie, lpc,
                 firstRead, call, loaded, filterVars,
                 findingVars>>
exceptAlert == <<schedAll, retryVars, scanVars, cookieVars, filterVars, findingVars>>
exceptScan == <<schedAll, retryVars, cookieVars, filterVars, findingVars>>
exceptCookie == <<schedAll, retryVars, alertVars, scanVars, filterVars, findingVars>>
exceptFilter == <<schedAll, retryVars, alertVars, scanVars, cookieVars, findingVars>>
exceptFinding == <<schedAll, retryVars, alertVars, scanVars, cookieVars, filterVars>>

NoScan == [phase |-> "none", task |-> 0, began |-> NoTime, ok |-> FALSE]
DoneScan(ok) == [phase |-> "done", task |-> 0, began |-> NoTime, ok |-> ok]
NoDecision == [task |-> 0, last |-> NoTime, due |-> FALSE]

(***************************************************************************)
(* Pure functions of scheduler.ts.                                         *)
(***************************************************************************)
\* Math.floor(Math.random() * n) for an integer n: Math.random() is in [0, 1)
FloorRandomTimes(n) ==
  IF n > 0 THEN 0..(n - 1) ELSE n..0

\* the offset MIN_INTERVAL_MINUTES is not added
GetRandomIntervalNoMin(min, max) ==
  FloorRandomTimes(max - min)

\* the offset is added to the maximum
GetRandomIntervalFromMax(min, max) ==
  { f + max : f \in FloorRandomTimes(max - min) }

\* the values getRandomInterval() can return
GetRandomInterval(min, max) ==
  { f + min : f \in FloorRandomTimes(max - min) }

\* the values getHumanLikeDelay() can return, in minutes
GetHumanLikeDelay ==
  { (2 * 60 * 1000) \div MsPerMinute, (5 * 60 * 1000) \div MsPerMinute,
    (15 * 60 * 1000) \div MsPerMinute, (45 * 60 * 1000) \div MsPerMinute }

\* the delay is written as 30 seconds
HealthCoolDownSeconds == (30 * 1000) \div MsPerMinute

\* setTimeout(resolve, 30 * 60 * 1000) after a failed health check, in minutes
HealthCoolDown == (30 * 60 * 1000) \div MsPerMinute

\* setTimeout(resolve, 30 * 60 * 1000) after a rate limit error, in minutes
RateLimitCoolDown == (30 * 60 * 1000) \div MsPerMinute

\* response.ok
ResponseOk(status) == status >= 200 /\ status <= 299

\* the statuses the HEAD request of the health check is tried with
HealthResponses == {NetErr, 200, 403, 429, 500}

\* checkSessionHealth(): false when fetch throws
CheckSessionHealth(status) ==
  IF status = NetErr THEN FALSE ELSE ResponseOk(status) \/ status = 403

\* a never scanned search counts as scanned just now
MinutesSinceLastScanNullZero(search, t) ==
  IF search.lastScannedAt # NoTime THEN t - search.lastScannedAt ELSE 0

\* minutesSinceLastScan of the loop body
MinutesSinceLastScan(search, t) ==
  IF search.lastScannedAt # NoTime THEN t - search.lastScannedAt ELSE Infinity

\* no search is ever due
IsDueNever(search, t, requiredInterval) == FALSE

\* minutesSinceLastScan >= requiredInterval
IsDue(search, t, requiredInterval) ==
  MinutesSinceLastScan(search, t) >= requiredInterval

\* scanError.message.includes('429') || includes('Too Many Requests')
IsRateLimitMessage(msg) == msg = "429"

\* storage.getSearchQueries(): the rows, newest first
GetSearchQueries ==
  [k \in 1..NumTasks |->
     [id |-> NumTasks + 1 - k,
      isActive |-> db[NumTasks + 1 - k].isActive,
      lastScannedAt |-> db[NumTasks + 1 - k].lastScannedAt]]

\* the filter keeps every row
IsAnyRow(s) == TRUE

\* searches.filter((s) => s.isActive)
IsActive(s) == s.isActive

(***************************************************************************)
(* The outcomes of scrapeVintedSearch as scanSearchQuery sees them: the    *)
(* listings, or the terminal error of withRetry.                           *)
(***************************************************************************)
ScrapeOutcomes == {"ok", "403", "429", "timeout", "error"}

(***************************************************************************)
(* Initial state: the process has started, the rows exist.                 *)
(***************************************************************************)
SchedInit ==
  /\ now = 0
  /\ cfg \in EnvConfigs
  /\ db \in [Tasks -> [isActive : BOOLEAN, lastScannedAt : {NoTime}]]
  /\ db[NumTasks].isActive
  /\ cronJobs = 0
  /\ pending = 0
  /\ isRunning = FALSE
  /\ spc = "idle"
  /\ wakeAt = NoTime
  /\ searches = <<>>
  /\ idx = 0
  /\ processedSearches = 0
  /\ scans = [s \in Slots |-> NoScan]
  /\ decision = NoDecision
  /\ vetoAt = NoTime
  /\ cycleScans = 0
  /\ dropped = FALSE
  /\ lastOk = [t \in Tasks |-> NoTime]
  /\ priorOk = [t \in Tasks |-> NoTime]
  /\ rateLimited = FALSE

(***************************************************************************)
(* The clock and the timers.                                               *)
(***************************************************************************)
Tick ==
  /\ \E d \in TickSteps :
       /\ now + d <= MaxTime
       /\ now' = now + d
  /\ UNCHANGED <<cfg, db, cronJobs, pending, schedVars, scans, histVars>>

\* startScheduler(): registers one more cron job
StartScheduler ==
  /\ cronJobs < MaxStarts
  /\ cronJobs' = cronJobs + 1
  /\ UNCHANGED <<now, cfg, db, pending, schedVars, scans, histVars>>

\* the callback of one cron job (every 20 minutes): it arms a jitter timeout
CronTick ==
  /\ cronJobs > 0
  /\ pending < MaxPending
  /\ pending' = pending + 1
  /\ UNCHANGED <<now, cfg, db, cronJobs, schedVars, scans, histVars>>

(***************************************************************************)
(* runScheduledScans.                                                      *)
(***************************************************************************)
\* the finally block leaves the flag set
EndCycleKeepsFlag ==
  /\ isRunning' = isRunning
  /\ spc' = "idle"
  /\ wakeAt' = NoTime
  /\ searches' = <<>>
  /\ idx' = 0
  /\ processedSearches' = 0
  /\ decision' = NoDecision
  /\ vetoAt' = NoTime
  /\ cycleScans' = 0
  /\ dropped' = FALSE
  /\ priorOk' = [t \in Tasks |-> NoTime]
  /\ rateLimited' = FALSE

\* the finally block, and the locals going out of scope
EndCycle ==
  /\ isRunning' = FALSE
  /\ spc' = "idle"
  /\ wakeAt' = NoTime
  /\ searches' = <<>>
  /\ idx' = 0
  /\ processedSearches' = 0
  /\ decision' = NoDecision
  /\ vetoAt' = NoTime
  /\ cycleScans' = 0
  /\ dropped' = FALSE
  /\ priorOk' = [t \in Tasks |-> NoTime]
  /\ rateLimited' = FALSE

\* a duplicate trigger restarts the cycle
RunScheduledScansEntryNoGuard ==
  /\ isRunning' = TRUE
  /\ spc' = "health"
  /\ UNCHANGED <<wakeAt, searches, idx, processedSearches>>
  /\ cycleScans' = 0
  /\ dropped' = isRunning

\* scheduler.ts:52-62, up to the await of checkSessionHealth()
RunScheduledScansEntry ==
  IF isRunning
  THEN /\ UNCHANGED <<schedVars, cycleScans>>
       /\ dropped' = TRUE
  ELSE /\ isRunning' = TRUE
       /\ spc' = "health"
       /\ UNCHANGED <<wakeAt, searches, idx, processedSearches>>
       /\ cycleScans' = 0
       /\ dropped' = FALSE

\* a jitter timeout fires and calls runScheduledScans()
TimerFire ==
  /\ pending > 0
  /\ pending' = pending - 1
  /\ RunScheduledScansEntry
  /\ UNCHANGED <<now, cfg, db, cronJobs, scans,
                 decision, vetoAt, lastOk, priorOk, rateLimited>>

\* scheduler.ts:62-67: checkSessionHealth() resolves after the HEAD request
\* was answered with status (or threw)
HealthDoneWith(status) ==
  /\ spc = "health"
  /\ IF CheckSessionHealth(status)
     THEN /\ spc' = "loading"
          /\ UNCHANGED <<wakeAt, vetoAt>>
     ELSE /\ spc' = "cooldown"
          /\ wakeAt' = now + HealthCoolDown
          /\ vetoAt' = now
  /\ UNCHANGED <<now, cfg, db, cronJobs, pending, isRunning,
                 searches, idx, processedSearches, scans,
                 decision, cycleScans, dropped, lastOk, priorOk, rateLimited>>

\* checkSessionHealth() resolves
HealthDone == \E status \in HealthResponses : HealthDoneWith(status)

\* storage.getSearchQueries() resolves or rejects
LoadSearches ==
  /\ spc = "loading"
  /\ \E fail \in BOOLEAN :
       IF fail
       THEN EndCycle
       ELSE /\ searches' = SelectSeq(GetSearchQueries, IsActive)
            /\ idx' = 1
            /\ processedSearches' = 0
            /\ spc' = "loop"
            /\ priorOk' = lastOk
            /\ UNCHANGED <<isRunning, wakeAt, decision, vetoAt, cycleScans, dropped,
                           rateLimited>>
  /\ UNCHANGED <<now, cfg, db, cronJobs, pending, scans, lastOk>>

\* one iteration of the for loop, up to its first await
LoopStep ==
  /\ spc = "loop"
  /\ IF idx > Len(searches)
     THEN /\ spc' = "cleanup"
          /\ UNCHANGED <<idx, scans, decision, cycleScans>>
     ELSE \E requiredInterval \in GetRandomInterval(cfg.min, cfg.max) :
            LET search == searches[idx]
                due == IsDue(search, now, requiredInterval)
            IN /\ decision' = [task |-> search.id, last |-> search.lastScannedAt,
                               due |-> due]
               /\ IF due
                  THEN /\ scans' = [scans EXCEPT ![SchedSlot] =
                                      [phase |-> "scrape", task |-> search.id,
                                       began |-> now, ok |-> FALSE]]
                       /\ spc' = "scanning"
                       /\ cycleScans' = cycleScans + 1
                       /\ UNCHANGED idx
                  ELSE /\ idx' = idx + 1
                       /\ UNCHANGED <<spc, scans, cycleScans>>
  /\ UNCHANGED <<now, cfg, db, cronJobs, pending, isRunning,
                 wakeAt, searches, processedSearches, vetoAt, dropped, lastOk, priorOk,
                 rateLimited>>

\* the loop is left when a scan settles
AfterScanAbort(threw, msg) ==
  /\ spc' = "cleanup"
  /\ UNCHANGED <<wakeAt, idx, processedSearches>>

\* scheduler.ts:85-109: what the loop does when the scan it awaits settles
AfterScan(threw, msg) ==
  IF ~threw
  THEN /\ processedSearches' = processedSearches + 1
       /\ \E humanDelay \in GetHumanLikeDelay : wakeAt' = now + humanDelay
       /\ spc' = "break"
       /\ UNCHANGED idx
  ELSE IF IsRateLimitMessage(msg)
       THEN /\ wakeAt' = now + RateLimitCoolDown
            /\ spc' = "penalty"
            /\ UNCHANGED <<idx, processedSearches>>
       ELSE /\ idx' = idx + 1
            /\ spc' = "loop"
            /\ UNCHANGED <<wakeAt, processedSearches>>

\* a failed scan reaches the scheduler as a rejection with the 429 message
ScanReturnsRethrows(s, ok) ==
  /\ scans' = [scans EXCEPT ![s] = DoneScan(ok)]
  /\ IF s = SchedSlot
     THEN AfterScan(~ok, "429")
     ELSE UNCHANGED <<spc, wakeAt, idx, processedSearches>>

\* scanSearchQuery returns (it has no path that throws): the slot is released
\* and, for the scan of the scheduler, the loop goes on
ScanReturns(s, ok) ==
  /\ scans' = [scans EXCEPT ![s] = DoneScan(ok)]
  /\ IF s = SchedSlot
     THEN AfterScan(FALSE, "")
     ELSE UNCHANGED <<spc, wakeAt, idx, processedSearches>>

\* scrapeVintedSearch settles: the listings, or the catch block returns 0
ScrapeDone ==
  \E s \in Slots, outcome \in ScrapeOutcomes :
    /\ scans[s].phase = "scrape"
    /\ IF outcome = "ok"
       THEN /\ scans' = [scans EXCEPT ![s].phase = "update"]
            /\ UNCHANGED <<spc, wakeAt, idx, processedSearches>>
       ELSE ScanReturns(s, FALSE)
    /\ rateLimited' = IF s = SchedSlot THEN outcome = "429" ELSE rateLimited
    /\ UNCHANGED <<now, cfg, db, cronJobs, pending, isRunning,
                   searches, decision, vetoAt, cycleScans, dropped, lastOk, priorOk>>

\* the update is lost
UpdateLastScannedRowLost(id, t) ==
  db

\* the update has no where clause
UpdateLastScannedAllRows(id, t) ==
  [r \in Tasks |-> [db[r] EXCEPT !.lastScannedAt = t]]

\* storage.updateLastScanned(id): set lastScannedAt = new Date()
UpdateLastScannedRow(id, t) ==
  [db EXCEPT ![id].lastScannedAt = t]

\* scanner.ts:14-107: the loop over the listings and then
\* storage.updateLastScanned settle, or the catch block (108-111) when a step
\* of the loop or the update throws
UpdateLastScanned ==
  \E s \in Slots, fail \in BOOLEAN :
    /\ scans[s].phase = "update"
    /\ IF fail
       THEN UNCHANGED <<db, lastOk>>
       ELSE /\ db' = UpdateLastScannedRow(scans[s].task, now)
            /\ lastOk' = [lastOk EXCEPT ![scans[s].task] = now]
    /\ ScanReturns(s, ~fail)
    /\ UNCHANGED <<now, cfg, cronJobs, pending, isRunning,
                   searches, decision, vetoAt, cycleScans, dropped, priorOk, rateLimited>>

\* the timers resolve at once
WakeEarly ==
  /\ spc \in {"cooldown", "break", "penalty"}
  /\ IF spc = "cooldown"
     THEN EndCycle /\ UNCHANGED scans
     ELSE /\ idx' = idx + 1
          /\ spc' = "loop"
          /\ wakeAt' = NoTime
          /\ decision' = NoDecision
          /\ scans' = [scans EXCEPT ![SchedSlot] = NoScan]
          /\ rateLimited' = FALSE
          /\ UNCHANGED <<isRunning, searches, processedSearches,
                         vetoAt, cycleScans, dropped, priorOk>>
  /\ UNCHANGED <<now, cfg, db, cronJobs, pending, lastOk>>

\* a setTimeout the cycle awaits resolves
Wake ==
  /\ spc \in {"cooldown", "break", "penalty"}
  /\ now >= wakeAt
  /\ IF spc = "cooldown"
     THEN EndCycle /\ UNCHANGED scans
     ELSE /\ idx' = idx + 1
          /\ spc' = "loop"
          /\ wakeAt' = NoTime
          /\ decision' = NoDecision
          /\ scans' = [scans EXCEPT ![SchedSlot] = NoScan]
          /\ rateLimited' = FALSE
          /\ UNCHANGED <<isRunning, searches, processedSearches,
                         vetoAt, cycleScans, dropped, priorOk>>
  /\ UNCHANGED <<now, cfg, db, cronJobs, pending, lastOk>>

\* storage.deleteExpiredFindings() settles, then the finally block
Cleanup ==
  /\ spc = "cleanup"
  /\ EndCycle
  /\ UNCHANGED <<now, cfg, db, cronJobs, pending, scans, lastOk>>

(***************************************************************************)
(* POST /api/searches/:id/trigger: scanSearchQuery in the background.      *)
(***************************************************************************)
TriggerRoute ==
  \E id \in Tasks, s \in RouteSlots :
    /\ scans[s].phase \in {"none", "done"}
    /\ \A r \in RouteSlots : r < s => scans[r].phase \notin {"none", "done"}
    /\ scans' = [scans EXCEPT ![s] =
                   [phase |-> "scrape", task |-> id, began |-> now, ok |-> FALSE]]
    /\ UNCHANGED <<now, cfg, db, cronJobs, pending, schedVars, histVars>>

(***************************************************************************)
(* The cookie manager: CookieManager.loadCookies and deleteSession         *)
(* (src/server/utils/cookie-manager.ts).                                   *)
(***************************************************************************)
\* the cookies a session file can hold
MaxFileCookies == 2

\* What SESSION_FILE holds: no file; text JSON.parse rejects; or an object
\* whose field cookies is an array of cookies or not, and whose metadata is
\* missing, or gives an age of at most or of more than 30 days.
FileCookies(n) == [k \in 1..n |-> [name |-> "file", value |-> k]]

SessionFiles ==
  { [kind |-> "absent"], [kind |-> "garbage"] } \cup
  { [kind |-> "json", cookiesIsArray |-> FALSE, cookies |-> <<>>, metadata |-> m] :
      m \in {"missing", "fresh", "old"} } \cup
  [kind : {"json"}, cookiesIsArray : {TRUE},
   cookies : {FileCookies(n) : n \in 0..MaxFileCookies},
   metadata : {"missing", "fresh", "old"}]

\* process.env.VINTED_SESSION_COOKIE: unset or empty, or a value
LegacyValues == {"", "legacy-token"}

NoSessionData == [kind |-> "null"]

\* createLegacyCookie(sessionValue)
CreateLegacyCookie(sessionValue) ==
  << [name |-> "_vinted_fr_session", value |-> sessionValue] >>

\* the fallback of loadFromFile is taken for every file
LoadFromFileAlwaysThrows(file) == [threw |-> TRUE, cookies |-> <<>>]

\* a session file older than 30 days is refused
LoadFromFileRejectsOld(file) ==
  IF file.kind # "json" THEN [threw |-> TRUE, cookies |-> <<>>]
  ELSE IF ~file.cookiesIsArray THEN [threw |-> TRUE, cookies |-> <<>>]
  ELSE IF file.metadata \in {"missing", "old"} THEN [threw |-> TRUE, cookies |-> <<>>]
  ELSE [threw |-> FALSE, cookies |-> file.cookies]

\* loadFromFile(): the cookies of the file, or it throws
LoadFromFile(file) ==
  IF file.kind # "json" THEN [threw |-> TRUE, cookies |-> <<>>]
  ELSE IF ~file.cookiesIsArray THEN [threw |-> TRUE, cookies |-> <<>>]
  ELSE IF file.metadata = "missing" THEN [threw |-> TRUE, cookies |-> <<>>]
  ELSE [threw |-> FALSE, cookies |-> file.cookies]

\* this.sessionData?.cookies || []
CachedCookies(data) ==
  IF data.kind = "null" THEN <<>>
  ELSE IF ~data.cookiesIsArray THEN <<>>
  ELSE data.cookies

CookieIdle ==
  /\ sessionFile = [kind |-> "absent"]
  /\ legacyCookie = ""
  /\ cookiesLoaded = FALSE
  /\ sessionData = NoSessionData
  /\ lpc = "idle"
  /\ firstRead = <<>>
  /\ call = NoCookieCall
  /\ loaded = <<>>

CookieInit ==
  /\ sessionFile \in SessionFiles
  /\ legacyCookie \in LegacyValues
  /\ cookiesLoaded = FALSE
  /\ sessionData = NoSessionData
  /\ lpc = "idle"
  /\ firstRead = <<>>
  /\ call = NoCookieCall
  /\ loaded = <<>>

\* cookie-manager.ts:60-77: the fallback to the legacy cookie, or the empty list
LegacyFallback ==
  IF legacyCookie # ""
  THEN /\ sessionData' = [kind |-> "json", cookiesIsArray |-> TRUE,
                          cookies |-> CreateLegacyCookie(legacyCookie),
                          metadata |-> "fresh"]
       /\ cookiesLoaded' = TRUE
       /\ loaded' = CreateLegacyCookie(legacyCookie)
  ELSE /\ loaded' = <<>>
       /\ UNCHANGED <<sessionData, cookiesLoaded>>

\* only a throw of loadFromFile is caught
TryCatchesFirstReadOnly(step) == step = "loadFromFile"

\* cookie-manager.ts:47-58: both reads of the file are awaited inside the try
\* block, whose catch only warns
TryCatches(step) == step \in {"loadFromFile", "loadSessionData"}

\* cookie-manager.ts:42-50: loadCookies up to its second read of the file
LoadCookies ==
  /\ lpc = "idle"
  /\ LET fromFile == LoadFromFile(sessionFile)
         escapes == ~cookiesLoaded /\ fromFile.threw /\ ~TryCatches("loadFromFile")
     IN /\ call' = [state |-> IF escapes THEN "threw"
                               ELSE IF cookiesLoaded \/ fromFile.threw
                                       \/ Len(fromFile.cookies) = 0
                               THEN "returned" ELSE "running",
                     cached |-> cookiesLoaded, file |-> sessionFile,
                     reread |-> sessionFile]
        /\ IF cookiesLoaded
           THEN /\ loaded' = CachedCookies(sessionData)
                /\ UNCHANGED <<sessionData, cookiesLoaded, lpc, firstRead>>
           ELSE IF escapes
           THEN UNCHANGED <<sessionData, cookiesLoaded, lpc, firstRead, loaded>>
           ELSE IF ~fromFile.threw /\ Len(fromFile.cookies) > 0
           THEN /\ lpc' = "loadSessionData"
                /\ firstRead' = fromFile.cookies
                /\ UNCHANGED <<sessionData, cookiesLoaded, loaded>>
           ELSE /\ LegacyFallback
                /\ UNCHANGED <<lpc, firstRead>>
  /\ UNCHANGED <<sessionFile, legacyCookie>>

\* cookie-manager.ts:51-58 and 113-116: loadSessionData reads the file again;
\* readFile or JSON.parse throws when the file is gone or is not JSON
LoadSessionData ==
  /\ lpc = "loadSessionData"
  /\ IF sessionFile.kind = "json"
     THEN /\ sessionData' = sessionFile
          /\ cookiesLoaded' = TRUE
          /\ loaded' = firstRead
          /\ call' = [call EXCEPT !.state = "returned", !.reread = sessionFile]
     ELSE IF TryCatches("loadSessionData")
     THEN /\ LegacyFallback
          /\ call' = [call EXCEPT !.state = "returned", !.reread = sessionFile]
     ELSE /\ call' = [call EXCEPT !.state = "threw", !.reread = sessionFile]
          /\ UNCHANGED <<sessionData, cookiesLoaded, loaded>>
  /\ lpc' = "idle"
  /\ firstRead' = <<>>
  /\ UNCHANGED <<sessionFile, legacyCookie>>

\* the session file is written from outside (scripts/save-session)
WriteSessionFile ==
  /\ \E file \in SessionFiles : file.kind # "absent" /\ sessionFile' = file
  /\ UNCHANGED <<legacyCookie, cookiesLoaded, sessionData, lpc, firstRead, call, loaded>>

\* cookie-manager.ts:191-198: deleteSession()
DeleteSession ==
  /\ sessionFile' = [kind |-> "absent"]
  /\ UNCHANGED <<legacyCookie, cookiesLoaded, sessionData, lpc, firstRead, call, loaded>>

(***************************************************************************)
(* The retry controller: scrapeVintedSearch under withRetry                *)
(* (services/vinted-scraper, in src/server/services/telegram.ts:361-860).  *)
(* Delays are in milliseconds.                                             *)
(***************************************************************************)
\* withRetry(fn, maxRetries = 4)
MaxRetries == 4

\* What the site does in one attempt: the search page loads; it shows the
\* block page and still does after the recovery; it shows the block page and
\* loads after the recovery; it shows the block page and the navigation of the
\* recovery throws; page.goto throws, with a message that holds '403', '429',
\* 'timeout' or none of them; it answers HTTP 403 or HTTP 429 with a page whose
\* title holds neither '403' nor 'Access Denied' (page.goto resolves whatever
\* the status of the response).
Answers ==
  { "normal", "blocked", "blockedRecovers", "blockedRecoveryThrows",
    "throw403", "throw429", "throwTimeout", "throwOther",
    "forbiddenPage", "rateLimitPage" }

\* response.status() of the last response to the navigations of the attempt,
\* as the listener of setupPage sees it; NetErr when the navigation threw
FinalStatus(answer) ==
  CASE answer \in {"normal", "blockedRecovers"} -> 200
    [] answer \in {"blocked", "forbiddenPage"} -> 403
    [] answer = "rateLimitPage" -> 429
    [] OTHER -> NetErr

\* An error message is modelled by the markers message.includes() finds in it.
NoError == {"none"}
ThrownMessage(answer) ==
  CASE answer = "throw403" -> {"403"}
    [] answer = "throw429" -> {"429"}
    [] answer = "throwTimeout" -> {"timeout"}
    [] OTHER -> {}

\* new Error('403 Forbidden - unable to recover session')
UnableToRecover == {"403", "Forbidden"}
\* an error whose message names no class
ErrorWithoutClass == {}
\* new Error('403 Forbidden - session may be blocked')
SessionMayBeBlocked == {"403", "Forbidden"}
\* new Error('Max retries exceeded')
MaxRetriesExceeded == {}

\* the answer of the site to the attempt-th call of fn
SiteAnswer(attempt) ==
  IF attempt <= Len(site) THEN site[attempt] ELSE site[Len(site)]

\* page.title() after page.goto(searchUrl)
FirstTitle(answer) ==
  IF answer \in {"blocked", "blockedRecovers", "blockedRecoveryThrows"}
  THEN "Access Denied"
  ELSE IF answer = "forbiddenPage" THEN "Just a moment..."
  ELSE IF answer = "rateLimitPage" THEN "Too Many Requests"
  ELSE "Vinted"

\* page.title() after the two navigations of handle403Recovery
RecoveryTitle(answer) ==
  IF answer = "blocked" THEN "Access Denied" ELSE "Vinted"

\* only a title with '403' counts as blocked
IsBlockedTitleOnly403(t) == t = "403 Forbidden"

\* title.includes('403') || title.includes('Access Denied')
IsBlockedTitle(t) == t \in {"403 Forbidden", "Access Denied"}

\* the listings page.evaluate extracts in the attempt-th call of fn
Listings(attempt) == [payload |-> attempt]
\* page.evaluate finds no item in a page that is not a search page
NoListings == [payload |-> -1]
\* what page.evaluate returns from the page the attempt ended on
PageListings(answer, attempt) ==
  IF answer \in {"forbiddenPage", "rateLimitPage"} THEN NoListings ELSE Listings(attempt)
NoResult == [payload |-> 0]

\* Math.random() * n, as whole milliseconds: the least and the largest value
Jitter(n) == {0, n - 1}

\* cookieManager.loadCookies() and cookieManager.getRegionCookies()
CookieSet(cookies) == {cookies[k] : k \in DOMAIN cookies}

\* the session file in place while the fetch runs: well-formed, with cookies
PersistedSession ==
  [kind |-> "json", cookiesIsArray |-> TRUE,
   cookies |-> FileCookies(MaxFileCookies), metadata |-> "fresh"]

\* telegram.ts:560: what cookieManager.loadCookies() returns to setupPage once
\* the session is loaded
SessionCookies == CookieSet(CachedCookies(sessionData))

\* cookieManager.getRegionCookies()
RegionCookies ==
  { [name |-> "country", value |-> 0], [name |-> "selected_country", value |-> 0] }

\* what the site sets on a page that starts without cookies
FreshCookies == { [name |-> "fresh", value |-> 0] }

\* the loop stops at the first cookie
DeleteFirstCookie(cookies, toDelete) ==
  IF toDelete = {} THEN cookies ELSE cookies \ {CHOOSE c \in toDelete : TRUE}

\* for (const cookie of cookies) await page.deleteCookie(cookie)
DeleteCookies(cookies, toDelete) == cookies \ toDelete

\* the browser of the attempt is left as it is
FinallyLeave(browser) == browser

\* finally { if (browser) await browser.close() }
FinallyClose(browser) == FALSE

\* the last attempt is taken to be the one before the last
IsLastAttemptEarly(n) == n = MaxRetries - 2

\* isLastAttempt = i === maxRetries - 1
IsLastAttempt(n) == n = MaxRetries - 1

\* the delay does not grow with the attempt
RateLimitDelayFlat(n, jitter) == 60000 + jitter

\* (i + 1) * 60000 + Math.random() * 30000
RateLimitDelay(n, jitter) == (n + 1) * 60000 + jitter

\* (i + 1) * 2000 + Math.random() * 3000
TimeoutDelay(n, jitter) == (n + 1) * 2000 + jitter

\* 2^i, for the indexes of the loop
Pow2(n) == CASE n = 0 -> 1 [] n = 1 -> 2 [] n = 2 -> 4 [] n = 3 -> 8 [] OTHER -> 16

\* Math.pow(2, i) * 2000 + Math.random() * 2000
BackoffDelay(n, jitter) == Pow2(n) * 2000 + jitter

\* checkSessionRefresh(): the probe runs when the last one is older than 30
\* minutes; false on 403, 429 or when fetch throws
CheckSessionRefresh(refreshDue, status) ==
  IF refreshDue THEN ~(status = 403 \/ status = 429 \/ status = NetErr) ELSE TRUE

ProbeStatuses == {NetErr, 200, 403, 429}

RetryIdle ==
  /\ site = <<>>
  /\ rpc = "idle"
  /\ i = 0
  /\ attempts = 0
  /\ recoveries = 0
  /\ recoveryRan = FALSE
  /\ sessionDelay = FALSE
  /\ browserOpen = FALSE
  /\ pageCookies = {}
  /\ title = ""
  /\ waits = <<>>
  /\ err = NoError
  /\ result = NoResult

\* scrapeVintedSearch(searchUrl) has been called: withRetry enters its loop
RetryInit ==
  /\ site \in [1..MaxRetries -> Answers]
  /\ rpc = "loop"
  /\ i = 0
  /\ attempts = 0
  /\ recoveries = 0
  /\ recoveryRan = FALSE
  /\ sessionDelay = FALSE
  /\ browserOpen = FALSE
  /\ pageCookies = {}
  /\ title = ""
  /\ waits = <<>>
  /\ err = NoError
  /\ result = NoResult
  /\ sessionFile = PersistedSession
  /\ legacyCookie = ""
  /\ cookiesLoaded \in BOOLEAN
  /\ sessionData = IF cookiesLoaded THEN sessionFile ELSE NoSessionData
  /\ lpc = "idle"
  /\ firstRead = <<>>
  /\ call = NoCookieCall
  /\ loaded = <<>>

\* telegram.ts:475-484, 615-625 and 559-576: the loop test,
\* checkSessionRefresh, the extended delay, then fn up to page.goto: a new
\* browser and page, on which setupPage sets the cookies loadCookies returns
\* (the cached session, or the session file on the first call) and the
\* region cookies
AttemptStart ==
  /\ rpc = "loop"
  /\ IF i < MaxRetries
     THEN \E refreshDue \in BOOLEAN, status \in ProbeStatuses :
            /\ sessionDelay' = (~CheckSessionRefresh(refreshDue, status) /\ i > 0)
            /\ attempts' = attempts + 1
            /\ browserOpen' = TRUE
            /\ sessionData' = IF cookiesLoaded THEN sessionData ELSE sessionFile
            /\ cookiesLoaded' = TRUE
            /\ pageCookies' = CookieSet(CachedCookies(sessionData')) \cup RegionCookies
            /\ recoveryRan' = FALSE
            /\ rpc' = "goto"
            /\ UNCHANGED <<err, result>>
     ELSE /\ err' = MaxRetriesExceeded
          /\ result' = NoResult
          /\ rpc' = "threw"
          /\ UNCHANGED <<sessionDelay, attempts, browserOpen, pageCookies, recoveryRan,
                         sessionData, cookiesLoaded>>
  /\ UNCHANGED <<site, i, recoveries, title, waits>>

\* telegram.ts:627-636: page.goto(searchUrl) and the test of the title
Navigate ==
  /\ rpc = "goto"
  /\ LET answer == SiteAnswer(attempts)
     IN IF answer \in {"throw403", "throw429", "throwTimeout", "throwOther"}
        THEN /\ err' = ThrownMessage(answer)
             /\ browserOpen' = FinallyClose(browserOpen)
             /\ rpc' = "catch"
             /\ UNCHANGED title
        ELSE /\ title' = FirstTitle(answer)
             /\ rpc' = IF IsBlockedTitle(FirstTitle(answer)) THEN "recovery" ELSE "extract"
             /\ UNCHANGED <<err, browserOpen>>
  /\ UNCHANGED <<site, i, attempts, recoveries, recoveryRan, sessionDelay,
                 pageCookies, waits, result>>
  /\ UNCHANGED <<sessionData, cookiesLoaded>>

\* the recovery also drops the session the cookie manager holds
RecoveryClearForgetsSession ==
  /\ rpc = "recovery"
  /\ recoveries' = recoveries + 1
  /\ recoveryRan' = TRUE
  /\ pageCookies' = DeleteCookies(pageCookies, pageCookies)
  /\ sessionData' = [sessionData EXCEPT !.cookies = <<>>]
  /\ rpc' = "renavigate"
  /\ UNCHANGED <<site, i, attempts, sessionDelay, browserOpen, title, waits, err, result,
                 cookiesLoaded>>

\* telegram.ts:440-451: handle403Recovery deletes the cookies of the page
\* and waits; it has the page only, the cookie manager is out of its reach
RecoveryClear ==
  /\ rpc = "recovery"
  /\ recoveries' = recoveries + 1
  /\ recoveryRan' = TRUE
  /\ pageCookies' = DeleteCookies(pageCookies, pageCookies)
  /\ rpc' = "renavigate"
  /\ UNCHANGED <<site, i, attempts, sessionDelay, browserOpen, title, waits, err, result,
                 sessionData, cookiesLoaded>>

\* telegram.ts:453-470 and 633-635: the two navigations of the recovery and
\* the test of the title; fn throws when the recovery returns false
RecoveryRenavigate ==
  /\ rpc = "renavigate"
  /\ LET answer == SiteAnswer(attempts)
         recovered == /\ answer # "blockedRecoveryThrows"
                      /\ ~IsBlockedTitle(RecoveryTitle(answer))
     IN /\ title' = IF answer = "blockedRecoveryThrows" THEN title ELSE RecoveryTitle(answer)
        /\ pageCookies' = IF answer = "blockedRecoveryThrows" THEN pageCookies ELSE FreshCookies
        /\ IF recovered
           THEN /\ rpc' = "extract"
                /\ UNCHANGED <<err, browserOpen>>
           ELSE /\ err' = UnableToRecover
                /\ browserOpen' = FinallyClose(browserOpen)
                /\ rpc' = "catch"
  /\ UNCHANGED <<site, i, attempts, recoveries, recoveryRan, sessionDelay, waits, result>>
  /\ UNCHANGED <<sessionData, cookiesLoaded>>

\* telegram.ts:638-716: the listings are extracted, the browser is closed,
\* withRetry returns them
Extract ==
  /\ rpc = "extract"
  /\ result' = PageListings(SiteAnswer(attempts), attempts)
  /\ browserOpen' = FinallyClose(browserOpen)
  /\ rpc' = "returned"
  /\ UNCHANGED <<site, i, attempts, recoveries, recoveryRan, sessionDelay,
                 pageCookies, title, waits, err>>
  /\ UNCHANGED <<sessionData, cookiesLoaded>>

\* telegram.ts:485-509: the catch block of withRetry
Catch ==
  /\ rpc = "catch"
  /\ \E j1 \in Jitter(30000), j2 \in Jitter(3000), j3 \in Jitter(2000) :
       LET classWait ==
             IF "403" \in err \/ "Forbidden" \in err THEN <<>>
             ELSE IF "429" \in err \/ "Too Many Requests" \in err
                  THEN <<[kind |-> "ratelimit", ms |-> RateLimitDelay(i, j1)]>>
             ELSE IF "timeout" \in err
                  THEN <<[kind |-> "timeout", ms |-> TimeoutDelay(i, j2)]>>
             ELSE <<>>
       IN IF ("403" \in err \/ "Forbidden" \in err) /\ IsLastAttempt(i)
          THEN /\ err' = SessionMayBeBlocked
               /\ waits' = <<>>
               /\ rpc' = "threw"
               /\ UNCHANGED i
          ELSE IF IsLastAttempt(i)
               THEN /\ waits' = classWait
                    /\ rpc' = "threw"
                    /\ UNCHANGED <<i, err>>
               ELSE /\ waits' = classWait \o <<[kind |-> "backoff", ms |-> BackoffDelay(i, j3)]>>
                    /\ i' = i + 1
                    /\ rpc' = "loop"
                    /\ UNCHANGED err
  /\ UNCHANGED <<site, attempts, recoveries, recoveryRan, sessionDelay,
                 browserOpen, pageCookies, title, result>>
  /\ UNCHANGED <<sessionData, cookiesLoaded>>

\* the scheduler at rest, for the specification of the retry controller
SchedQuiet ==
  /\ SchedInit
  /\ cfg.min < cfg.max
  /\ \A t \in Tasks : db[t].isActive

(***************************************************************************)
(* The alert path: sendTelegramAlert (src/server/services/telegram.ts:     *)
(* 44-108) and TelegramRateLimiter (src/server/utils/rate-limiter.ts).     *)
(* Times are in milliseconds.                                              *)
(***************************************************************************)
\* the calls of sendTelegramAlert that can be in flight at once
NumCallers == 2
\* the listing URLs in use
NumUrls == 11
\* the messages delivered in one behaviour
MaxSends == 11
\* the steps of the clock
MaxClockSteps == 2

\* private readonly maxAlertsPerHour = 10
maxAlertsPerHour == 10
\* private readonly hourInMs = 60 * 60 * 1000
hourInMs == 60 * 60 * 1000
\* confidenceScore < 75
AlertMinConfidence == 75

Callers == 1..NumCallers
ClockStepMs == 30 * 60 * 1000
\* the confidence scores enumerated, on both sides of 75
Confidences == {74, 75}

NoCall == [pc |-> "idle", url |-> 0, confidence |-> 0, valuable |-> FALSE]

\* the URLs a call can be made with: the first URL, or the first of the URLs
\* not in use (URLs are only ever compared for equality)
UsedUrls ==
  ({m.url : m \in BagToSet(sent)} \cup {acall[c].url : c \in Callers}) \ {0}

NextUrls ==
  {1} \cup {u \in 2..NumUrls : u \notin UsedUrls /\ \A v \in 2..(u - 1) : v \in UsedUrls}

\* The array this.alerts is held as the bag of its records: the code filters
\* it, takes its length, searches it and pushes to it, and never observes the
\* order of its elements.
\* this.alerts.filter(alert => now - alert.timestamp < this.hourInMs)
RecentAlerts(list, t) ==
  [alert \in {a \in BagToSet(list) : t - a.timestamp < hourInMs} |-> list[alert]]

\* canSendAlert(listingUrl), its result; list is this.alerts after the filter
CanSendAlert(list, listingUrl) ==
  IF BagCardinality(list) >= maxAlertsPerHour THEN FALSE
  ELSE IF \E alert \in BagToSet(list) : alert.listingUrl = listingUrl THEN FALSE
  ELSE TRUE

\* recordAlert(listingUrl)
RecordAlert(list, listingUrl, t) ==
  list (+) SetToBag({[timestamp |-> t, listingUrl |-> listingUrl]})

\* confidenceScore < 75 || !isValuableLikely
BelowAlertThreshold(confidenceScore, isValuableLikely) ==
  confidenceScore < AlertMinConfidence \/ ~isValuableLikely

AlertIdle ==
  /\ clock = 0
  /\ botReady = TRUE
  /\ alerts = EmptyBag
  /\ sent = EmptyBag
  /\ acall = [c \in Callers |-> NoCall]
  /\ alertReturn = "none"

AlertInit ==
  /\ clock = 0
  /\ botReady \in BOOLEAN
  /\ alerts = EmptyBag
  /\ sent = EmptyBag
  /\ acall = [c \in Callers |-> NoCall]
  /\ alertReturn = "none"

\* time passes
ClockTick ==
  /\ clock + ClockStepMs <= MaxClockSteps * ClockStepMs
  /\ clock' = clock + ClockStepMs
  /\ UNCHANGED <<botReady, alerts, sent, acall, alertReturn>>

\* telegram.ts:53-92: sendTelegramAlert up to the await of bot.sendMessage;
\* awaits says whether the call now awaits the send
AlertEnter(c, listingUrl, confidenceScore, isValuableLikely, awaits) ==
  /\ acall[c].pc = "idle"
  /\ IF BelowAlertThreshold(confidenceScore, isValuableLikely) \/ ~botReady
     THEN /\ ~awaits
          /\ UNCHANGED <<alerts, acall>>
     ELSE /\ alerts' = RecentAlerts(alerts, clock)
          /\ awaits = CanSendAlert(RecentAlerts(alerts, clock), listingUrl)
          /\ IF awaits
             THEN acall' = [acall EXCEPT ![c] =
                              [pc |-> "sending", url |-> listingUrl,
                               confidence |-> confidenceScore,
                               valuable |-> isValuableLikely]]
             ELSE UNCHANGED acall
  /\ alertReturn' = IF awaits THEN alertReturn ELSE "false"
  /\ UNCHANGED <<clock, botReady, sent>>

\* the alert is recorded although bot.sendMessage threw
AlertSettleAlwaysRecords(c, delivered) ==
  /\ acall[c].pc = "sending"
  /\ IF delivered
     THEN /\ sent' = sent (+) SetToBag({[time |-> clock, url |-> acall[c].url,
                                          confidence |-> acall[c].confidence,
                                          valuable |-> acall[c].valuable]})
          /\ alertReturn' = "true"
     ELSE /\ alertReturn' = "false"
          /\ UNCHANGED sent
  /\ alerts' = RecentAlerts(RecordAlert(alerts, acall[c].url, clock), clock)
  /\ acall' = [acall EXCEPT ![c] = NoCall]
  /\ UNCHANGED <<clock, botReady>>

\* telegram.ts:92-107: bot.sendMessage settles; when it delivered, the alert is
\* recorded, getCurrentAlertCount filters the list and the call returns true;
\* when it threw, the catch block returns false
AlertSettle(c, delivered) ==
  /\ acall[c].pc = "sending"
  /\ IF delivered
     THEN /\ sent' = sent (+) SetToBag({[time |-> clock, url |-> acall[c].url,
                                          confidence |-> acall[c].confidence,
                                          valuable |-> acall[c].valuable]})
          /\ alerts' = RecentAlerts(RecordAlert(alerts, acall[c].url, clock), clock)
          /\ alertReturn' = "true"
     ELSE /\ alertReturn' = "false"
          /\ UNCHANGED <<sent, alerts>>
  /\ acall' = [acall EXCEPT ![c] = NoCall]
  /\ UNCHANGED <<clock, botReady>>

\* a caller calls sendTelegramAlert
SendTelegramAlert ==
  \E c \in Callers, listingUrl \in NextUrls, confidenceScore \in Confidences,
     isValuableLikely \in BOOLEAN, awaits \in BOOLEAN :
    /\ BagCardinality(sent) + Cardinality({d \in Callers : acall[d].pc = "sending"}) < MaxSends
    /\ AlertEnter(c, listingUrl, confidenceScore, isValuableLikely, awaits)

\* bot.sendMessage resolves or rejects
SendMessageSettles ==
  \E c \in Callers, delivered \in BOOLEAN : AlertSettle(c, delivered)

(***************************************************************************)
(* The listings of a scan: the loop of scanSearchQuery                     *)
(* (src/server/services/scanner.ts:14-102) and POST /api/analyze-listing   *)
(* (src/server/routes.ts:181-277). Run c uses call c of sendTelegramAlert. *)
(***************************************************************************)
\* the listings the searches return
NumListings == 2
\* the calls of analyzeJewelryImages for one listing in one behaviour
MaxAnalyses == 2

\* const CONFIDENCE_THRESHOLD = 75
CONFIDENCE_THRESHOLD == 75

ListingIds == 1..NumListings
\* listing.listingUrl of the listing with this listingId
ListingUrl(listingId) == listingId

\* the pages scrapeVintedSearch returns: listings in some order
ScrapedPages ==
  {page \in UNION {[1..n -> ListingIds] : n \in 1..NumListings} :
     \A j, k \in 1..Len(page) : j # k => page[j] # page[k]}

NoAnalysis == [confidence |-> 0, isValuableLikely |-> FALSE]

\* openai-analyzer.ts:188-244: what analyzeJewelryImages returns when the
\* analyzer is disabled, the listing has no image, the API call throws or the
\* response does not validate
FailedAnalysis == [confidence |-> 0, isValuableLikely |-> FALSE]

\* the results of analyzeJewelryImages enumerated: the one of a failed
\* analysis, and one on each side of each conjunct of the threshold test
AnalysisResults ==
  {FailedAnalysis} \cup
  {a \in [confidence : Confidences, isValuableLikely : BOOLEAN] :
     a.confidence >= CONFIDENCE_THRESHOLD \/ a.isValuableLikely}
NoRun == [pc |-> "idle", rest |-> <<>>, analysis |-> NoAnalysis]

\* the threshold test looks at the confidence only
MeetsThresholdConfidenceOnly(analysis) ==
  analysis.confidence >= CONFIDENCE_THRESHOLD

\* analysis.confidence >= CONFIDENCE_THRESHOLD && analysis.isValuableLikely
MeetsThreshold(analysis) ==
  analysis.confidence >= CONFIDENCE_THRESHOLD /\ analysis.isValuableLikely

ScanIdle ==
  /\ run = [c \in Callers |-> NoRun]
  /\ analyzed = {}
  /\ analysisCalls = [l \in ListingIds |-> 0]
  /\ findingsTbl = EmptyBag

\* the loop goes to its next listing, or the scan ends after the last one
Continue(c) ==
  run' = [run EXCEPT ![c] =
            IF Len(run[c].rest) > 1
            THEN [pc |-> "getAnalyzed", rest |-> Tail(run[c].rest), analysis |-> NoAnalysis]
            ELSE NoRun]

\* the catch block of scanSearchQuery: the scan ends
Abort(c) == run' = [run EXCEPT ![c] = NoRun]

\* scanner.ts:11-14: scrapeVintedSearch returned a page with listings
StartScan ==
  \E c \in Callers, page \in ScrapedPages :
    /\ run[c].pc = "idle"
    /\ run' = [run EXCEPT ![c] = [pc |-> "getAnalyzed", rest |-> page, analysis |-> NoAnalysis]]
    /\ UNCHANGED <<analyzed, analysisCalls, findingsTbl, alertVars>>

\* scanner.ts:16-20: storage.getAnalyzedListing(listing.listingId) settles
GetAnalyzedListing ==
  \E c \in Callers :
    /\ run[c].pc = "getAnalyzed"
    /\ IF \E row \in analyzed : row.listingId = Head(run[c].rest)
       THEN Continue(c)
       ELSE run' = [run EXCEPT ![c].pc = "getFinding"]
    /\ UNCHANGED <<analyzed, analysisCalls, findingsTbl, alertVars>>

\* scanner.ts:23-27: storage.getFindingByListingUrl(listing.listingUrl) settles
GetFindingByListingUrl ==
  \E c \in Callers :
    /\ run[c].pc = "getFinding"
    /\ IF \E row \in BagToSet(findingsTbl) : row.listingUrl = ListingUrl(Head(run[c].rest))
       THEN Continue(c)
       ELSE run' = [run EXCEPT ![c].pc = "analyze"]
    /\ UNCHANGED <<analyzed, analysisCalls, findingsTbl, alertVars>>

\* scanner.ts:31-36: analyzeJewelryImages is called and returns its analysis
\* (it has no path that throws)
AnalyzeJewelryImages ==
  \E c \in Callers, analysis \in AnalysisResults :
    /\ run[c].pc = "analyze"
    /\ analysisCalls[Head(run[c].rest)] < MaxAnalyses
    /\ analysisCalls' = [analysisCalls EXCEPT ![Head(run[c].rest)] = @ + 1]
    /\ run' = [run EXCEPT ![c].pc = "record", ![c].analysis = analysis]
    /\ UNCHANGED <<analyzed, findingsTbl, alertVars>>

\* a failed analysis is not recorded
CreateAnalyzedListingSkipsFailed ==
  \E c \in Callers, fail \in BOOLEAN :
    /\ run[c].pc = "record"
    /\ IF fail
       THEN Abort(c) /\ UNCHANGED analyzed
       ELSE /\ analyzed' = IF run[c].analysis = FailedAnalysis THEN analyzed
                           ELSE analyzed \cup
                                  {[listingId |-> Head(run[c].rest),
                                    confidenceScore |-> run[c].analysis.confidence,
                                    isValuable |-> run[c].analysis.isValuableLikely]}
            /\ IF MeetsThreshold(run[c].analysis)
               THEN run' = [run EXCEPT ![c].pc = "createFinding"]
               ELSE Continue(c)
    /\ UNCHANGED <<analysisCalls, findingsTbl, alertVars>>

\* scanner.ts:39-50 and 93-101: storage.createAnalyzedListing settles, then
\* the threshold test
CreateAnalyzedListing ==
  \E c \in Callers, fail \in BOOLEAN :
    /\ run[c].pc = "record"
    /\ IF fail
       THEN Abort(c) /\ UNCHANGED analyzed
       ELSE /\ analyzed' = analyzed \cup
                 {[listingId |-> Head(run[c].rest),
                   confidenceScore |-> run[c].analysis.confidence,
                   isValuable |-> run[c].analysis.isValuableLikely]}
            /\ IF MeetsThreshold(run[c].analysis)
               THEN run' = [run EXCEPT ![c].pc = "createFinding"]
               ELSE Continue(c)
    /\ UNCHANGED <<analysisCalls, findingsTbl, alertVars>>

\* scanner.ts:59-84: storage.createFinding settles, then sendTelegramAlert is
\* called and runs up to its await
CreateFinding ==
  \E c \in Callers, fail \in BOOLEAN, awaits \in BOOLEAN :
    /\ run[c].pc = "createFinding"
    /\ IF fail
       THEN Abort(c) /\ UNCHANGED <<findingsTbl, alertVars>>
       ELSE /\ findingsTbl' = findingsTbl (+) SetToBag(
                 {[listingId |-> Head(run[c].rest),
                   listingUrl |-> ListingUrl(Head(run[c].rest)),
                   confidenceScore |-> run[c].analysis.confidence,
                   isValuable |-> run[c].analysis.isValuableLikely]})
            /\ AlertEnter(c, ListingUrl(Head(run[c].rest)), run[c].analysis.confidence,
                          run[c].analysis.isValuableLikely, awaits)
            /\ IF awaits
               THEN run' = [run EXCEPT ![c].pc = "alert"]
               ELSE Continue(c)
    /\ UNCHANGED <<analyzed, analysisCalls>>

\* scanner.ts:76-101: the sendTelegramAlert of a scan settles
ScanAlertSettles ==
  \E c \in Callers, delivered \in BOOLEAN :
    /\ run[c].pc = "alert"
    /\ AlertSettle(c, delivered)
    /\ Continue(c)
    /\ UNCHANGED <<analyzed, analysisCalls, findingsTbl>>

\* routes.ts:204-252: POST /api/analyze-listing analyses the listing and,
\* past its threshold test, calls sendTelegramAlert
AnalyzeListingRoute ==
  \E c \in Callers, listingId \in ListingIds, confidence \in Confidences,
     isValuableLikely \in BOOLEAN, awaits \in BOOLEAN :
    LET analysis == [confidence |-> confidence, isValuableLikely |-> isValuableLikely]
    IN /\ run[c].pc = "idle"
       /\ IF MeetsThreshold(analysis)
          THEN /\ AlertEnter(c, ListingUrl(listingId), confidence, isValuableLikely, awaits)
               /\ run' = [run EXCEPT ![c] =
                            IF awaits THEN [pc |-> "manual", rest |-> <<listingId>>,
                                            analysis |-> analysis]
                            ELSE NoRun]
          ELSE /\ ~awaits
               /\ UNCHANGED <<run, alertVars>>
       /\ UNCHANGED <<analyzed, analysisCalls, findingsTbl>>

\* routes.ts:244-266: the sendTelegramAlert of the route settles
RouteAlertSettles ==
  \E c \in Callers, delivered \in BOOLEAN :
    /\ run[c].pc = "manual"
    /\ AlertSettle(c, delivered)
    /\ run' = [run EXCEPT ![c] = NoRun]
    /\ UNCHANGED <<analyzed, analysisCalls, findingsTbl>>

(***************************************************************************)
(* The request filter of the page: the handler setupPage registers with    *)
(* page.on('request') (src/server/services/telegram.ts:578-592), during    *)
(* page.goto(searchUrl) (telegram.ts:627).                                 *)
(***************************************************************************)
\* the substrings the handler looks for in the URL of a request
UrlMarkers == {"analytics", "tracking", "ads"}

\* a URL is modelled by the markers it holds: a search for beads holds 'ads'
Urls == SUBSET UrlMarkers

\* req.resourceType()
ResourceTypes ==
  {"document", "stylesheet", "script", "xhr", "fetch", "image", "font", "media"}

NoRequest == [type |-> "none", url |-> {}, isNavigation |-> FALSE]

\* the handler of page.on('request'): req.abort() or req.continue()
RequestFilter(type, url) ==
  IF type \in {"image", "font", "media"} THEN "abort"
  ELSE IF "analytics" \in url \/ "tracking" \in url \/ "ads" \in url THEN "abort"
  ELSE "continue"

FilterIdle ==
  /\ targetUrl = {}
  /\ navigation = "idle"
  /\ request = NoRequest
  /\ verdict = "none"

FilterInit ==
  /\ targetUrl \in Urls
  /\ navigation = "idle"
  /\ request = NoRequest
  /\ verdict = "none"

\* page.goto(searchUrl): the request of the main document reaches the handler;
\* the navigation fails when the handler aborts it
Goto ==
  /\ navigation = "idle"
  /\ request' = [type |-> "document", url |-> targetUrl, isNavigation |-> TRUE]
  /\ verdict' = RequestFilter("document", targetUrl)
  /\ navigation' = IF RequestFilter("document", targetUrl) = "abort"
                   THEN "failed" ELSE "pending"
  /\ UNCHANGED targetUrl

\* the page asks for a resource, or has asked for the last one
Subrequest ==
  /\ navigation \in {"pending", "loaded"}
  /\ \E type \in ResourceTypes, url \in Urls :
       /\ request' = [type |-> type, url |-> url, isNavigation |-> FALSE]
       /\ verdict' = RequestFilter(type, url)
  /\ UNCHANGED <<targetUrl, navigation>>

\* the main document has arrived and the network is idle: page.goto resolves
GotoResolves ==
  /\ navigation = "pending"
  /\ navigation' = "loaded"
  /\ UNCHANGED <<targetUrl, request, verdict>>

(***************************************************************************)
(* The table of findings: createFinding as scanSearchQuery calls it,       *)
(* getFindings, deleteFinding and deleteExpiredFindings                    *)
(* (src/server/services/telegram.ts:963-1004). Times are in days.          *)
(***************************************************************************)
\* the findings created in one behaviour
NumFindings == 2
\* the days the clock of the findings runs
MaxDays == 17

\* expiresAt.setDate(expiresAt.getDate() + 15)
ExpiryDays == 15

FindingIds == 1..NumFindings

NoListing == [at |-> NoTime, returned |-> {}]

\* lt(findings.expiresAt, now), the where clause of getFindings and of
\* deleteExpiredFindings
LtExpiresAt(row, t) == row.expiresAt < t

FindingIdle ==
  /\ today = 0
  /\ findingRows = {}
  /\ listed = NoListing
  /\ sweptAt = NoTime

\* a day passes
DayPasses ==
  /\ today < MaxDays
  /\ today' = today + 1
  /\ listed' = NoListing
  /\ sweptAt' = NoTime
  /\ UNCHANGED findingRows

\* scanner.ts:55-73: a scan creates a finding that expires in 15 days
ScanCreatesFinding ==
  \E id \in FindingIds :
    /\ \A row \in findingRows : row.id # id
    /\ \A k \in FindingIds : k < id => \E row \in findingRows : row.id = k
    /\ findingRows' = findingRows \cup {[id |-> id, expiresAt |-> today + ExpiryDays]}
    /\ listed' = NoListing
    /\ UNCHANGED <<today, sweptAt>>

\* telegram.ts:964-970: getFindings()
GetFindings ==
  /\ listed' = [at |-> today,
                returned |-> {row \in findingRows : LtExpiresAt(row, today)}]
  /\ UNCHANGED <<today, findingRows, sweptAt>>

\* telegram.ts:996-999: deleteFinding(id), from DELETE /api/findings/:id
DeleteFinding ==
  \E row \in findingRows :
    /\ findingRows' = findingRows \ {row}
    /\ listed' = NoListing
    /\ UNCHANGED <<today, sweptAt>>

\* telegram.ts:1001-1004: deleteExpiredFindings(), at the end of each cycle
\* of the scheduler (scheduler.ts:115)
DeleteExpiredFindings ==
  /\ findingRows' = {row \in findingRows : ~LtExpiresAt(row, today)}
  /\ sweptAt' = today
  /\ listed' = NoListing
  /\ UNCHANGED today

InitFinding ==
  SchedQuiet /\ RetryIdle /\ AlertIdle /\ ScanIdle /\ CookieIdle /\ FilterIdle /\ FindingIdle

NextFinding ==
  \/ DayPasses /\ UNCHANGED exceptFinding
  \/ ScanCreatesFinding /\ UNCHANGED exceptFinding
  \/ GetFindings /\ UNCHANGED exceptFinding
  \/ DeleteFinding /\ UNCHANGED exceptFinding
  \/ DeleteExpiredFindings /\ UNCHANGED exceptFinding

SpecFinding == InitFinding /\ [][NextFinding]_vars

InitCookie == SchedQuiet /\ RetryIdle /\ AlertIdle /\ ScanIdle /\ CookieInit /\ FilterIdle /\ FindingIdle

NextCookie ==
  \/ LoadCookies /\ UNCHANGED exceptCookie
  \/ LoadSessionData /\ UNCHANGED exceptCookie
  \/ WriteSessionFile /\ UNCHANGED exceptCookie
  \/ DeleteSession /\ UNCHANGED exceptCookie

SpecCookie == InitCookie /\ [][NextCookie]_vars

InitFilter ==
  SchedQuiet /\ RetryIdle /\ AlertIdle /\ ScanIdle /\ CookieIdle /\ FilterInit /\ FindingIdle

NextFilter ==
  \/ Goto /\ UNCHANGED exceptFilter
  \/ Subrequest /\ UNCHANGED exceptFilter
  \/ GotoResolves /\ UNCHANGED exceptFilter

SpecFilter == InitFilter /\ [][NextFilter]_vars

InitScan == SchedQuiet /\ RetryIdle /\ AlertInit /\ ScanIdle /\ CookieIdle /\ FilterIdle /\ FindingIdle

NextScan ==
  \/ StartScan /\ UNCHANGED exceptScan
  \/ GetAnalyzedListing /\ UNCHANGED exceptScan
  \/ GetFindingByListingUrl /\ UNCHANGED exceptScan
  \/ AnalyzeJewelryImages /\ UNCHANGED exceptScan
  \/ CreateAnalyzedListing /\ UNCHANGED exceptScan
  \/ CreateFinding /\ UNCHANGED exceptScan
  \/ ScanAlertSettles /\ UNCHANGED exceptScan
  \/ AnalyzeListingRoute /\ UNCHANGED exceptScan
  \/ RouteAlertSettles /\ UNCHANGED exceptScan

SpecScan == InitScan /\ [][NextScan]_vars

InitAlert == SchedQuiet /\ RetryIdle /\ AlertInit /\ ScanIdle /\ CookieIdle /\ FilterIdle /\ FindingIdle

NextAlert ==
  \/ ClockTick /\ UNCHANGED exceptAlert
  \/ SendTelegramAlert /\ UNCHANGED exceptAlert
  \/ SendMessageSettles /\ UNCHANGED exceptAlert

SpecAlert == InitAlert /\ [][NextAlert]_vars

InitRetry == SchedQuiet /\ RetryInit /\ AlertIdle /\ ScanIdle /\ FilterIdle /\ FindingIdle

NextRetry ==
  \/ AttemptStart /\ UNCHANGED exceptRetry
  \/ Navigate /\ UNCHANGED exceptRetry
  \/ RecoveryClear /\ UNCHANGED exceptRetry
  \/ RecoveryRenavigate /\ UNCHANGED exceptRetry
  \/ Extract /\ UNCHANGED exceptRetry
  \/ Catch /\ UNCHANGED exceptRetry

SpecRetry == InitRetry /\ [][NextRetry]_vars

Init == SchedInit /\ RetryIdle /\ AlertIdle /\ ScanIdle /\ CookieIdle /\ FilterIdle /\ FindingIdle

Next ==
  \/ Tick /\ UNCHANGED exceptSched
  \/ StartScheduler /\ UNCHANGED exceptSched
  \/ CronTick /\ UNCHANGED exceptSched
  \/ TimerFire /\ UNCHANGED exceptSched
  \/ HealthDone /\ UNCHANGED exceptSched
  \/ LoadSearches /\ UNCHANGED exceptSched
  \/ LoopStep /\ UNCHANGED exceptSched
  \/ ScrapeDone /\ UNCHANGED exceptSched
  \/ UpdateLastScanned /\ UNCHANGED exceptSched
  \/ Wake /\ UNCHANGED exceptSched
  \/ Cleanup /\ UNCHANGED exceptSched
  \/ TriggerRoute /\ UNCHANGED exceptSched

Spec == Init /\ [][Next]_vars

(***************************************************************************)
(* The scheduler running for ever: startScheduler has been called once,    *)
(* the cron job keeps firing, time passes without bound, and every promise *)
(* the cycle awaits settles.                                               *)
(***************************************************************************)
\* a time d minutes back, on a clock whose origin has moved d minutes on;
\* times before the new origin are kept at the origin
ShiftTime(t, d) ==
  IF t = NoTime THEN NoTime ELSE IF t > d THEN t - d ELSE 0

\* Date.now() moves on. The clock of the model is kept within MaxTime: when
\* it is there, its origin moves on instead, and every time the program
\* holds moves back with it. No test of the program tells a time at the
\* origin from an earlier one: the intervals it compares with are shorter
\* than MaxTime.
TickForEver ==
  /\ \E d \in TickSteps :
       IF now + d <= MaxTime
       THEN /\ now' = now + d
            /\ UNCHANGED <<db, wakeAt, searches, scans, decision, vetoAt, lastOk, priorOk>>
       ELSE /\ now' = now
            /\ db' = [t \in Tasks |->
                        [db[t] EXCEPT !.lastScannedAt = ShiftTime(@, d)]]
            /\ wakeAt' = ShiftTime(wakeAt, d)
            /\ searches' = [k \in 1..Len(searches) |->
                              [searches[k] EXCEPT !.lastScannedAt = ShiftTime(@, d)]]
            /\ scans' = [s \in Slots |-> [scans[s] EXCEPT !.began = ShiftTime(@, d)]]
            /\ decision' = [decision EXCEPT !.last = ShiftTime(@, d)]
            /\ vetoAt' = ShiftTime(vetoAt, d)
            /\ lastOk' = [t \in Tasks |-> ShiftTime(lastOk[t], d)]
            /\ priorOk' = [t \in Tasks |-> ShiftTime(priorOk[t], d)]
  /\ UNCHANGED <<cfg, cronJobs, pending, isRunning, spc, idx, processedSearches,
                 cycleScans, dropped, rateLimited>>

\* the state after startScheduler() was called once
SchedStarted ==
  /\ now = 0
  /\ cfg \in EnvConfigs
  /\ db \in [Tasks -> [isActive : BOOLEAN, lastScannedAt : {NoTime}]]
  /\ db[NumTasks].isActive
  /\ cronJobs = 1
  /\ pending = 0
  /\ isRunning = FALSE
  /\ spc = "idle"
  /\ wakeAt = NoTime
  /\ searches = <<>>
  /\ idx = 0
  /\ processedSearches = 0
  /\ scans = [s \in Slots |-> NoScan]
  /\ decision = NoDecision
  /\ vetoAt = NoTime
  /\ cycleScans = 0
  /\ dropped = FALSE
  /\ lastOk = [t \in Tasks |-> NoTime]
  /\ priorOk = [t \in Tasks |-> NoTime]
  /\ rateLimited = FALSE

InitLive ==
  SchedStarted /\ RetryIdle /\ AlertIdle /\ ScanIdle /\ CookieIdle /\ FilterIdle /\ FindingIdle

NextLive ==
  \/ TickForEver /\ UNCHANGED exceptSched
  \/ CronTick /\ UNCHANGED exceptSched
  \/ TimerFire /\ UNCHANGED exceptSched
  \/ HealthDone /\ UNCHANGED exceptSched
  \/ LoadSearches /\ UNCHANGED exceptSched
  \/ LoopStep /\ UNCHANGED exceptSched
  \/ ScrapeDone /\ UNCHANGED exceptSched
  \/ UpdateLastScanned /\ UNCHANGED exceptSched
  \/ Wake /\ UNCHANGED exceptSched
  \/ Cleanup /\ UNCHANGED exceptSched

\* timers fire and promises settle
Fairness ==
  /\ WF_vars(TickForEver /\ UNCHANGED exceptSched)
  /\ WF_vars(CronTick /\ UNCHANGED exceptSched)
  /\ WF_vars(TimerFire /\ UNCHANGED exceptSched)
  /\ WF_vars(HealthDone /\ UNCHANGED exceptSched)
  /\ WF_vars(LoadSearches /\ UNCHANGED exceptSched)
  /\ WF_vars(LoopStep /\ UNCHANGED exceptSched)
  /\ WF_vars(ScrapeDone /\ UNCHANGED exceptSched)
  /\ WF_vars(UpdateLastScanned /\ UNCHANGED exceptSched)
  /\ WF_vars(Wake /\ UNCHANGED exceptSched)
  /\ WF_vars(Cleanup /\ UNCHANGED exceptSched)

SpecLive == InitLive /\ [][NextLive]_vars /\ Fairness

(***************************************************************************)
(* Properties of the scheduler, checked under Spec.                        *)
(***************************************************************************)
Scanning(s) == scans[s].phase \in {"scrape", "update"}

\* C1: a trigger that arrives while isRunning is true changes nothing of the
\* cycle in flight and starts no scan, and it is not queued: a cycle only
\* ever starts in the step in which a trigger fires with isRunning false.
C1_DuplicateTriggerDropped ==
  [][ /\ (pending' < pending /\ isRunning) =>
            /\ schedVars' = schedVars
            /\ scans' = scans
            /\ cycleScans' = cycleScans
      /\ (spc' = "health" /\ spc # "health") =>
            /\ pending' = pending - 1
            /\ ~isRunning
            /\ spc = "idle" ]_vars

\* a trigger was dropped while the cycle slept in its break after a scan
C1_Witness ==
  dropped /\ spc = "break" /\ isRunning

\* C2: at most one scan of a given search is in progress, whatever the
\* interleaving of timer triggers and POST /api/searches/:id/trigger.
C2_OneScanPerTask ==
  \A t \in Tasks :
    Cardinality({s \in Slots : Scanning(s) /\ scans[s].task = t}) <= 1

\* C7: a cycle whose health check failed starts no scan and processes no
\* search, and it stays in its cool-down (no health check starts, triggers
\* are dropped) until 30 minutes have passed since the failed check.
C7_HealthVetoCoolDown ==
  [][ spc = "cooldown" =>
        /\ cycleScans = 0 /\ cycleScans' = 0
        /\ processedSearches = 0 /\ processedSearches' = 0
        /\ scans'[SchedSlot] = scans[SchedSlot]
        /\ spc' \in {"cooldown", "idle"}
        /\ (spc' = "idle" => now >= vetoAt + 30) ]_vars

\* a trigger arrived during the cool-down, was dropped, and the 30 minutes
\* are over
C7_Witness ==
  spc = "cooldown" /\ dropped /\ vetoAt # NoTime /\ now >= vetoAt + 30

\* C8: the due test of a search whose lastScannedAt is null is true, for
\* every configured minimum and maximum and every interval drawn.
C8_NeverScannedIsDue ==
  (decision.task # 0 /\ decision.last = NoTime) => decision.due

\* a never scanned search was found due under min > max
C8_Witness ==
  decision.task # 0 /\ decision.last = NoTime /\ decision.due /\ cfg.min > cfg.max

\* C9: with min <= max, a cycle that read the rows after a successful scan
\* of a search ended finds that search due only when at least
\* MIN_INTERVAL_MINUTES have passed since that scan ended.
C9_NotDueBeforeMinInterval ==
  (/\ cfg.min <= cfg.max
   /\ spc = "scanning"
   /\ Scanning(SchedSlot)
   /\ decision.due
   /\ priorOk[decision.task] # NoTime)
  => scans[SchedSlot].began - priorOk[decision.task] >= cfg.min

\* a search scanned before is found due again by a later cycle
C9_Witness ==
  /\ cfg.min <= cfg.max
  /\ spc = "scanning"
  /\ Scanning(SchedSlot)
  /\ decision.due
  /\ priorOk[decision.task] # NoTime

\* C10: when a scan ends successfully, lastScannedAt of its search is set
\* and is not earlier than the time the scan began; lastScannedAt of a search
\* never moves backwards.
C10_LastScannedAdvances ==
  [][ /\ \A s \in Slots :
            (scans[s].phase = "update" /\ scans'[s] = DoneScan(TRUE)) =>
              /\ db'[scans[s].task].lastScannedAt # NoTime
              /\ db'[scans[s].task].lastScannedAt >= scans[s].began
      /\ \A t \in Tasks :
            db[t].lastScannedAt # NoTime =>
              db'[t].lastScannedAt >= db[t].lastScannedAt ]_vars

\* a scan that began at minute 0 ended successfully later
C10_Witness ==
  \E s \in Slots, t \in Tasks :
    scans[s] = DoneScan(TRUE) /\ db[t].lastScannedAt > 0 /\ lastOk[t] = db[t].lastScannedAt

\* C11: the cool-down of a rate-limit failure is longer than every break
\* between two scans: what is left of a break is always less than the
\* cool-down.
C11_CoolDownLongerThanBreak ==
  spc = "break" => wakeAt - now < RateLimitCoolDown

\* the step of the loop that evaluates the task at idx
EvaluatesTask ==
  /\ spc = "loop"
  /\ idx <= Len(searches)
  /\ (idx' # idx \/ spc' # spc)

\* what C12 states of one step, for the configurations cfgOk admits
DueAtMaxInterval(cfgOk) ==
  cfgOk =>
    /\ \A r \in GetRandomInterval(cfg.min, cfg.max) : cfg.min <= r /\ r <= cfg.max
    /\ ( /\ EvaluatesTask
         /\ searches[idx].lastScannedAt # NoTime
         /\ now - searches[idx].lastScannedAt >= cfg.max )
       => ( /\ decision'.task = searches[idx].id
            /\ decision'.due
            /\ spc' = "scanning"
            /\ scans'[SchedSlot].task = searches[idx].id )
    /\ (scans[SchedSlot].phase = "update" /\ scans'[SchedSlot] = DoneScan(TRUE))
       => db'[scans[SchedSlot].task].lastScannedAt = now

\* C12 as stated: for every configuration the interval drawn lies in
\* [min, max], a task scanned at least max minutes ago is due when the loop
\* reaches it, and its successful scan sets lastScannedAt to the current time.
C12_DueAtMaxIntervalAnyConfig == [][DueAtMaxInterval(TRUE)]_vars

\* C12, amended: the same for the configurations with min <= max.
C12_DueAtMaxInterval == [][DueAtMaxInterval(cfg.min <= cfg.max)]_vars

\* a task scanned at least max minutes before is being scanned again
C12_Witness ==
  /\ cfg.min <= cfg.max
  /\ spc = "scanning"
  /\ decision.due
  /\ decision.last # NoTime
  /\ scans[SchedSlot].began - decision.last >= cfg.max

\* C13: however often startScheduler is called, one cron job is registered.
C13_StartSchedulerIdempotent == cronJobs <= 1

\* C15: the scan of a task that fails leaves the loop at the same task and
\* the cycle running; the index only moves by one, past a task that was
\* evaluated as not due or that was scanned; the loop is only left for the
\* cleanup, when every active task has been passed.
C15_FailedScanDoesNotAbortCycle ==
  [][ /\ (Scanning(SchedSlot) /\ scans'[SchedSlot] = DoneScan(FALSE)) =>
           (spc' = "break" /\ idx' = idx /\ isRunning' /\ searches' = searches)
      /\ (spc \in {"loop", "scanning", "break", "penalty"} /\ idx' # idx) =>
           /\ idx' = idx + 1
           /\ spc' = "loop"
           /\ \/ spc = "loop" /\ decision'.task = searches[idx].id /\ ~decision'.due
              \/ spc \in {"break", "penalty"} /\ scans[SchedSlot] \in {DoneScan(TRUE), DoneScan(FALSE)}
      /\ (spc \in {"loop", "scanning", "break", "penalty"} /\ spc' \notin {"loop", "scanning", "break", "penalty"}) =>
           (spc = "loop" /\ spc' = "cleanup" /\ idx > Len(searches))
    ]_vars

\* the second task of the cycle is being scanned after the scan of the first
\* one failed
C15_Witness ==
  /\ spc = "scanning"
  /\ idx = 2
  /\ cycleScans = 2
  /\ lastOk[searches[1].id] = NoTime

\* C21: when the scan of a due task ends because its scrape failed with a
\* 429 error, the timer the cycle then awaits before the next task is the
\* 30-minute penalty.
C21_RateLimitedScanTakesPenalty ==
  [][ (~rateLimited /\ rateLimited') => wakeAt' = now + RateLimitCoolDown ]_vars

\* the scan in slot s ends successfully in this step, and it is of task t
ScanSucceeds(s, t) ==
  /\ scans[s].phase = "update"
  /\ scans[s].task = t
  /\ scans'[s] = DoneScan(TRUE)

\* C24: lastScannedAt of a task changes only in the step in which a scan of
\* that task ends successfully; the step in which a scan fails, the step that
\* skips a task that is not due, and every step of a cycle vetoed by the
\* health check (but for a scan the trigger route started) change none.
C24_LastScannedOnlyOnSuccess ==
  [][ /\ \A t \in Tasks :
            db'[t].lastScannedAt # db[t].lastScannedAt =>
              \E s \in Slots : ScanSucceeds(s, t)
      /\ \A s \in Slots :
            (Scanning(s) /\ scans'[s] = DoneScan(FALSE)) => db' = db
      /\ (spc = "loop" /\ idx <= Len(searches) /\ idx' = idx + 1) => db' = db
      /\ spc = "cooldown" =>
            \A t \in Tasks :
              db'[t].lastScannedAt # db[t].lastScannedAt =>
                \E s \in RouteSlots : ScanSucceeds(s, t)
    ]_vars

\* a task scanned before was due again, its second scan failed, and its
\* lastScannedAt is still that of the first scan
C24_Witness ==
  /\ spc = "break"
  /\ scans[SchedSlot] = DoneScan(FALSE)
  /\ decision.task # 0
  /\ decision.last # NoTime
  /\ db[decision.task].lastScannedAt = decision.last
  /\ decision.last < now

\* C27: the cycle keeps the list the store returned, filtered, and goes
\* through it by an index that moves one place at a time; a scan of the
\* cycle starts only from the loop, for the task at the index, when no scan
\* of the cycle is in progress and no break is pending; a break ends only
\* when its time is over, and only then the index moves on.
C27_TasksVisitedInOrderOneAtATime ==
  [][ /\ (spc = "loading" /\ spc' = "loop") =>
            (searches' = SelectSeq(GetSearchQueries, IsActive) /\ idx' = 1)
      /\ (spc \in {"loop", "scanning", "break"} /\ spc' \in {"loop", "scanning", "break"}) =>
            (searches' = searches /\ idx' \in {idx, idx + 1})
      /\ (spc' = "scanning" /\ spc # "scanning") =>
            /\ spc = "loop"
            /\ ~Scanning(SchedSlot)
            /\ wakeAt = NoTime
            /\ idx' = idx
            /\ scans'[SchedSlot].task = searches[idx].id
      /\ spc = "scanning" => (idx' = idx /\ spc' \in {"scanning", "break"})
      /\ spc = "break" =>
            /\ ~Scanning(SchedSlot) /\ ~Scanning(SchedSlot)'
            /\ spc' \in {"break", "loop"}
            /\ spc' = "loop" => (now >= wakeAt /\ idx' = idx + 1)
            /\ spc' = "break" => idx' = idx
    ]_vars

\* the second task of the list is being scanned after the scan of the first
\* one succeeded and the break after it ended
C27_Witness ==
  /\ spc = "scanning"
  /\ idx = 2
  /\ cycleScans = 2
  /\ scans[SchedSlot].task = searches[2].id
  /\ lastOk[searches[1].id] # NoTime

\* C28: the step that finds the task at the index not due only moves the
\* index: it starts no scan, sets no timer, and changes no row, no analyzed
\* listing and no finding; an inactive task is not in the list of the cycle
\* and the cycle never scans it.
C28_SkippedTaskNoSideEffects ==
  [][ /\ (EvaluatesTask /\ ~decision'.due) =>
            /\ decision'.task = searches[idx].id
            /\ idx' = idx + 1
            /\ spc' = "loop"
            /\ scans' = scans
            /\ wakeAt' = wakeAt
            /\ cycleScans' = cycleScans
            /\ processedSearches' = processedSearches
            /\ db' = db
            /\ analyzed' = analyzed
            /\ findingsTbl' = findingsTbl
            /\ now' = now
      /\ \A k \in 1..Len(searches) : db[searches[k].id].isActive
      /\ Scanning(SchedSlot) => db[scans[SchedSlot].task].isActive
    ]_vars

\* the cycle has just skipped a task scanned before, while another task is
\* inactive
C28_Witness ==
  /\ spc = "loop"
  /\ decision.task # 0
  /\ ~decision.due
  /\ decision.last # NoTime
  /\ \E t \in Tasks : ~db[t].isActive

\* C34: a scan of the scheduler that fails (its scrape ends in an error, or a
\* later step throws) returns to the loop like a successful one: the task is
\* counted as processed and the cycle takes one of the ordinary breaks; the
\* rate-limit penalty of the error branch is never entered.
C34_FailedScanCountsAsProcessed ==
  [][ /\ (Scanning(SchedSlot) /\ scans'[SchedSlot] = DoneScan(FALSE)) =>
           /\ processedSearches' = processedSearches + 1
           /\ spc' = "break"
           /\ \E humanDelay \in GetHumanLikeDelay : wakeAt' = now + humanDelay
      /\ spc' # "penalty" ]_vars

\* the scan of the scheduler has failed on a 429 error and the cycle is in an
\* ordinary break with the task counted
C34_Witness ==
  /\ spc = "break"
  /\ scans[SchedSlot] = DoneScan(FALSE)
  /\ rateLimited
  /\ processedSearches >= 1
  /\ wakeAt - now \in GetHumanLikeDelay

\* C31: a health check whose HEAD request was answered with a blocking
\* status (403 or 429) sends the cycle to the cool-down: the step that
\* settles the check leads to "cooldown", where no search is processed.
C31_BlockedProbeGoesToCoolDown ==
  [][ \A status \in {403, 429} :
        HealthDoneWith(status) => spc' = "cooldown" ]_vars

(***************************************************************************)
(* Liveness of the scheduler, checked under SpecLive.                      *)
(***************************************************************************)
\* the task was never scanned, or was last scanned at least
\* MAX_INTERVAL_MINUTES ago
Overdue(t) ==
  \/ db[t].lastScannedAt = NoTime
  \/ now - db[t].lastScannedAt >= cfg.max

\* C25 as stated: triggers keep arriving and health checks and scans
\* terminate; then whenever an active task is overdue by the maximum interval
\* or more, a cycle later scans it.
C25_OverdueTaskEventuallyScannedAnyHealth ==
  \A t \in Tasks :
    (db[t].isActive /\ Overdue(t)) ~> (Scanning(SchedSlot) /\ scans[SchedSlot].task = t)

\* C25, amended: if moreover cycles keep reaching their loop over the tasks
\* (the health check passes and the rows are read again and again), then
\* whenever an active task is overdue by the maximum interval or more, a cycle
\* later scans it, however many triggers were dropped meanwhile.
C25_OverdueTaskEventuallyScanned ==
  \A t \in Tasks :
    ([]<>(spc = "loop")) =>
      ((db[t].isActive /\ Overdue(t)) ~> (Scanning(SchedSlot) /\ scans[SchedSlot].task = t))

\* a task scanned by an earlier cycle is scanned again, by a cycle that a
\* trigger found running and that dropped it
C25_Witness ==
  /\ Scanning(SchedSlot)
  /\ dropped
  /\ priorOk[scans[SchedSlot].task] # NoTime

\* C26: whenever the running flag is set, the invocation that set it later
\* clears it and is back at rest.
C26_RunningFlagEventuallyCleared ==
  isRunning ~> (~isRunning /\ spc = "idle")

\* an invocation is back at rest after a cycle that scanned a task
\* successfully and dropped a trigger, and the trigger that followed is
\* waiting to fire
C26_Witness ==
  /\ ~isRunning
  /\ spc = "idle"
  /\ pending > 0
  /\ \E t \in Tasks : lastOk[t] # NoTime

(***************************************************************************)
(* Properties of the retry controller, checked under SpecRetry             *)
(***************************************************************************)
\* an attempt fails when fn throws in it
Fails(answer) ==
  answer \in {"blocked", "blockedRecoveryThrows", "throw403", "throw429",
              "throwTimeout", "throwOther"}

\* the attempt is soft-blocked, and still is after the recovery
SoftBlocked(answer) == answer \in {"blocked", "blockedRecoveryThrows"}

InAttempt == rpc \in {"goto", "recovery", "renavigate", "extract", "catch"}

\* C3: with at most 4 attempts, when every attempt fails, whatever the class
\* of each failure, fn is called at most 4 times, the call never returns a
\* payload, and when it ends with its error fn was called exactly 4 times.
C3_ExactlyMaxRetriesAttempts ==
  (\A k \in 1..MaxRetries : Fails(site[k])) =>
    /\ attempts <= 4
    /\ rpc # "returned"
    /\ rpc = "threw" => (attempts = 4 /\ err # NoError /\ ~browserOpen)

\* the call ended with its error after failures of four different classes
C3_Witness ==
  /\ rpc = "threw"
  /\ attempts = 4
  /\ site = <<"throw429", "blocked", "throwTimeout", "throwOther">>

\* C4: the recovery has deleted every cookie of the page when it navigates
\* again; an attempt whose recovery fails, by a page still blocked or by an
\* error, is counted once: the index is the number of the attempt less one
\* while the attempt runs, and the catch block that follows the failed
\* recovery calls fn no further time and either advances the index by one or,
\* at the fourth attempt, ends the call.
C4_RecoveryClearsCookiesCountsOnce ==
  [][ /\ (rpc = "recovery" /\ rpc' = "renavigate") => pageCookies' = {}
      /\ rpc = "renavigate" => pageCookies = {}
      /\ InAttempt => (attempts = i + 1 /\ attempts <= 4)
      /\ (rpc = "catch" /\ recoveryRan) =>
           /\ attempts' = attempts
           /\ recoveries' = recoveries
           /\ IF i < 3 THEN i' = i + 1 /\ rpc' = "loop"
                       ELSE i' = i /\ rpc' = "threw"
    ]_vars

\* the third attempt is about to start after two failed recoveries, one by a
\* page still blocked and one by an error of the recovery
C4_Witness ==
  /\ rpc = "loop"
  /\ i = 2
  /\ recoveryRan
  /\ recoveries = 2
  /\ site[1] = "blocked"
  /\ site[2] = "blockedRecoveryThrows"

\* C5: when attempts 1, 2 and 3 are soft-blocked and attempt 4 loads, the
\* call does not end with an error, and when it returns it returns the
\* listings of attempt 4 after exactly 3 recoveries.
C5_ThreeBlocksThenSuccess ==
  ((\A k \in 1..3 : SoftBlocked(site[k])) /\ site[4] = "normal") =>
    /\ rpc # "threw"
    /\ recoveries <= 3
    /\ rpc = "returned" =>
         (result = Listings(4) /\ recoveries = 3 /\ attempts = 4 /\ ~recoveryRan)

\* the call returned after three soft-blocked attempts
C5_Witness ==
  /\ rpc = "returned"
  /\ site = <<"blocked", "blocked", "blocked", "normal">>
  /\ result = Listings(4)

\* C6: when attempt k of the first three fails as rate-limited, no recovery
\* ran in it and its cookies are untouched, and before attempt k + 1 the
\* catch block waited the rate-limit delay, at least k minutes and less than
\* k minutes and 30 seconds, then the backoff; no attempt follows the fourth.
C6_RateLimitWaitsGrow ==
  /\ attempts <= 4
  /\ \A k \in 1..3 :
       (rpc = "loop" /\ i = k /\ site[k] = "throw429") =>
         /\ ~recoveryRan
         /\ pageCookies = SessionCookies \cup RegionCookies
         /\ Len(waits) = 2
         /\ waits[1].kind = "ratelimit"
         /\ waits[1].ms >= k * 60000
         /\ waits[1].ms < k * 60000 + 30000
         /\ waits[2].kind = "backoff"

\* the fourth attempt is about to start after three rate-limited ones, the
\* last wait being of the longest rate-limit delay
C6_Witness ==
  /\ rpc = "loop"
  /\ i = 3
  /\ \A k \in 1..3 : site[k] = "throw429"
  /\ waits[1] = [kind |-> "ratelimit", ms |-> 3 * 60000 + 29999]

\* C19: whenever no attempt of the fetch is in progress, before the first
\* one, between two, in the catch block and after the call returned or threw,
\* no browser is open.
C19_NoBrowserOutsideAttempt ==
  ~InAttempt => ~browserOpen

\* the call ended after an attempt that was blocked, one that timed out, one
\* that failed otherwise and one that loaded
C19_Witness ==
  /\ rpc = "returned"
  /\ ~browserOpen
  /\ site = <<"blocked", "throwTimeout", "throwOther", "normal">>

\* the class the statement gives to what the site did in an attempt: by the
\* status of the final response, else by the error thrown
ResponseClass(answer) ==
  CASE FinalStatus(answer) = 403 \/ answer \in {"blockedRecoveryThrows", "throw403"}
         -> "SoftBlocked"
    [] FinalStatus(answer) = 429 \/ answer = "throw429" -> "RateLimited"
    [] answer = "throwTimeout" -> "Timeout"
    [] answer = "throwOther" -> "TransientError"
    [] OTHER -> "Success"

\* the last attempt is over: fn returned, or the catch block has run
AttemptSettled ==
  rpc = "returned" \/ (rpc \in {"loop", "threw"} /\ attempts > 0)

\* what withRetry did with the last attempt
HandledAs ==
  IF rpc = "returned" THEN "Success"
  ELSE IF "403" \in err \/ "Forbidden" \in err THEN "SoftBlocked"
  ELSE IF \E k \in 1..Len(waits) : waits[k].kind = "ratelimit" THEN "RateLimited"
  ELSE IF \E k \in 1..Len(waits) : waits[k].kind = "timeout" THEN "Timeout"
  ELSE "TransientError"

\* C22: once an attempt is over, withRetry has handled it by the class of the
\* response: SoftBlocked for a final response 403, RateLimited for 429,
\* Timeout for a navigation timeout, TransientError for any other error
\* thrown, and otherwise Success, returning the listings parsed.
C22_OutcomeFollowsResponse ==
  AttemptSettled =>
    /\ HandledAs = ResponseClass(SiteAnswer(attempts))
    /\ rpc = "returned" => result = Listings(attempts)

\* the class a caller reads from the message of an error, by the tests of the
\* catch block of withRetry and of the scheduler
ErrorClass(message) ==
  IF "403" \in message \/ "Forbidden" \in message THEN "SoftBlocked"
  ELSE IF "429" \in message \/ "Too Many Requests" \in message THEN "RateLimited"
  ELSE IF "timeout" \in message THEN "Timeout"
  ELSE "TransientError"

\* C23: when the call ends with an error, the fourth attempt has failed and
\* the message of the error gives the class of that failure; the message of
\* a rate-limit failure, and no other, holds '429'.
C23_TerminalErrorNamesClass ==
  rpc = "threw" =>
    /\ attempts = MaxRetries
    /\ err # NoError
    /\ ErrorClass(err) = ResponseClass(SiteAnswer(attempts))
    /\ ("429" \in err) = (SiteAnswer(attempts) = "throw429")

\* the call ended with the error of a rate-limited fourth attempt that
\* followed a soft-blocked one
C23_Witness ==
  /\ rpc = "threw"
  /\ site[3] = "blocked"
  /\ site[4] = "throw429"
  /\ "429" \in err

\* the time the catch block waited in all, in milliseconds
RECURSIVE TotalWait(_)
TotalWait(delays) ==
  IF delays = <<>> THEN 0 ELSE Head(delays).ms + TotalWait(Tail(delays))

\* C30: when attempt k of the first three failed by a timeout or by an error
\* of no other class, the catch block waited 2000 * 2^(k-1) ms plus a jitter
\* below 2000 ms in all before attempt k + 1, for both classes alike.
C30_BackoffSameForTimeoutAndTransient ==
  \A k \in 1..(MaxRetries - 1) :
    (rpc = "loop" /\ i = k /\ site[k] \in {"throwTimeout", "throwOther"}) =>
      /\ TotalWait(waits) >= 2000 * Pow2(k - 1)
      /\ TotalWait(waits) < 2000 * Pow2(k - 1) + 2000

\* C35: when withRetry has thrown its terminal error, the catch block that
\* threw it waited for no delay: rate-limit, timeout and backoff waits are
\* taken only before another attempt.
C35_NoDelayBeforeTerminalError ==
  rpc = "threw" => waits = <<>>

\* C36: the recovery deletes the cookies of the page of its attempt only:
\* its steps leave the session the cookie manager holds as it was, and every
\* attempt starts on a page with all the cookies of the persisted session
\* and the region cookies.
C36_RecoveryClearsOnlyThePage ==
  [][ /\ rpc \in {"recovery", "renavigate"} =>
           (sessionData' = sessionData /\ cookiesLoaded' = cookiesLoaded)
      /\ (rpc = "loop" /\ rpc' = "goto") =>
           pageCookies' = CookieSet(sessionFile.cookies) \cup RegionCookies ]_vars

\* the second attempt is at its navigation with the whole session on its
\* page, after the recovery of the first attempt emptied that attempt's page
\* and failed
C36_Witness ==
  /\ rpc = "goto"
  /\ attempts = 2
  /\ recoveries = 1
  /\ site[1] = "blocked"
  /\ sessionData = PersistedSession
  /\ pageCookies = CookieSet(PersistedSession.cookies) \cup RegionCookies
  /\ Cardinality(pageCookies) = MaxFileCookies + 2

(***************************************************************************)
(* Properties of the alert path, checked under SpecAlert                   *)
(***************************************************************************)
\* the number of messages delivered at a time t with from <= t < to
SentBetween(from, to) ==
  BagCardinality([m \in {x \in BagToSet(sent) : from <= x.time /\ x.time < to}
                    |-> sent[m]])

\* C16: in every window of one hour, here every window that begins with a
\* delivered message, at most 10 messages were delivered.
C16_AtMostTenAlertsPerHour ==
  \A m \in BagToSet(sent) : SentBetween(m.time, m.time + hourInMs) <= 10

\* C17: no URL has two messages delivered less than one hour apart.
C17_OneAlertPerUrlPerHour ==
  \A m \in BagToSet(sent) :
    /\ sent[m] = 1
    /\ \A n \in BagToSet(sent) :
         (n # m /\ n.url = m.url /\ n.time >= m.time) => n.time - m.time >= hourInMs

\* C40: a step in which a call of sendTelegramAlert ends without delivering
\* (below the threshold, bot not configured, refused by the rate limiter, or
\* sendMessage threw) returns false, delivers nothing and leaves this.alerts
\* as it was or as the filter of one hour leaves it; a record is added to
\* this.alerts only by a step that delivers a message and returns true.
C40_FailedSendLeavesLimiter ==
  [][ /\ \A c \in Callers :
           ( \/ AlertSettle(c, FALSE)
             \/ \E listingUrl \in 1..NumUrls, confidenceScore \in Confidences,
                    isValuableLikely \in BOOLEAN :
                  AlertEnter(c, listingUrl, confidenceScore, isValuableLikely, FALSE) )
           => /\ alertReturn' = "false"
              /\ sent' = sent
              /\ alerts' \in {alerts, RecentAlerts(alerts, clock)}
      /\ (\E a \in BagToSet(alerts') : CopiesIn(a, alerts') > CopiesIn(a, alerts))
           => (alertReturn' = "true" /\ sent' # sent) ]_vars

\* a message was delivered, an hour later a call passed the rate limiter,
\* which dropped the old record, and its sendMessage threw: the call
\* returned false and this.alerts is empty
C40_Witness ==
  /\ alertReturn = "false"
  /\ sent # EmptyBag
  /\ alerts = EmptyBag
  /\ clock >= hourInMs
  /\ \A c \in Callers : acall[c].pc = "idle"

(***************************************************************************)
(* Properties of the listings of a scan, checked under SpecScan            *)
(***************************************************************************)
\* C14: no scan calls analyzeJewelryImages for a listing that has a row in
\* analyzedListings.
C14_AnalyzedListingNotReanalyzed ==
  [][ \A l \in ListingIds :
        analysisCalls'[l] > analysisCalls[l] =>
          ~\E row \in analyzed : row.listingId = l ]_vars

\* C18: every finding a scan created and every message delivered has a
\* confidence of at least 75 and isValuableLikely true; the step that records
\* an analysis below that creates no finding and sends nothing.
C18_FindingAndAlertOnlyAboveThreshold ==
  [][ /\ \A row \in BagToSet(findingsTbl') :
           row.confidenceScore >= 75 /\ row.isValuable
      /\ \A m \in BagToSet(sent') : m.confidence >= 75 /\ m.valuable
      /\ \A c \in Callers :
           ( /\ run[c].pc = "record"
             /\ ~(run[c].analysis.confidence >= 75 /\ run[c].analysis.isValuableLikely) )
           => (run'[c].pc \notin {"createFinding", "alert"} /\ acall'[c] = acall[c])
    ]_vars

\* a finding was created and its alert delivered, and an analysis with
\* confidence 74 and one with isValuableLikely false were recorded without
\* a finding
C18_Witness ==
  /\ \E m \in BagToSet(sent) : m.confidence = 75 /\ m.valuable
  /\ \E a, b \in analyzed :
       /\ a.confidenceScore = 74 /\ a.isValuable
       /\ b.confidenceScore = 75 /\ ~b.isValuable
  /\ BagCardinality(findingsTbl) = 1
  /\ \A c \in Callers : run[c].pc = "idle"

\* the table analyzedListings has a row for the listing
HasAnalyzedRow(rows, l) == \E row \in rows : row.listingId = l

\* C38: when analyzeJewelryImages returned the result of a failed analysis,
\* the insert that follows, unless the storage throws, leaves a row for the
\* listing in analyzedListings; rows are never removed; and a scan that looks
\* the listing up once the row exists passes to its next listing without
\* calling analyzeJewelryImages.
C38_FailedAnalysisStillRecorded ==
  [][ /\ \A c \in Callers :
           ( /\ run[c].pc = "record"
             /\ run[c].analysis = FailedAnalysis
             /\ run'[c] # run[c]
             /\ analyzed' # analyzed \/ run'[c].pc = "getAnalyzed" )
           => HasAnalyzedRow(analyzed', Head(run[c].rest))
      /\ analyzed \subseteq analyzed'
      /\ \A c \in Callers :
           ( /\ run[c].pc = "getAnalyzed"
             /\ HasAnalyzedRow(analyzed, Head(run[c].rest))
             /\ run'[c] # run[c] )
           => /\ run'[c].pc \in {"idle", "getAnalyzed"}
              /\ run'[c].rest = Tail(run[c].rest) \/ run'[c] = NoRun
              /\ analysisCalls' = analysisCalls ]_vars

\* the only scan in progress is looking up a listing whose one analysis
\* failed and was recorded
C38_Witness ==
  \E c \in Callers :
    /\ run[c].pc = "getAnalyzed"
    /\ \A d \in Callers \ {c} : run[d].pc = "idle"
    /\ analysisCalls[Head(run[c].rest)] = 1
    /\ \E row \in analyzed :
         row.listingId = Head(run[c].rest) /\ row.confidenceScore = 0

(***************************************************************************)
(* Properties of the cookie manager, checked under SpecCookie.             *)
(***************************************************************************)
\* interface SessionData (cookie-manager.ts): a cookies array and metadata
WellFormed(file) ==
  file.kind = "json" /\ file.cookiesIsArray /\ file.metadata # "missing"

\* a call of loadCookies has returned, and the file was the same at both reads
ReturnedOnSteadyFile == call.state = "returned" /\ call.reread = call.file

\* what C20 says a call returns when the file qualified or not
ReturnsFileElseLegacyElseEmpty(fileQualifies) ==
  IF fileQualifies THEN loaded = call.file.cookies
  ELSE IF legacyCookie # "" THEN loaded = CreateLegacyCookie(legacyCookie)
  ELSE loaded = <<>>

\* C20 as stated: every call of loadCookies returns the cookies of the session
\* file when the file exists and is well-formed, else the single legacy cookie
\* when one is configured, else the empty list.
C20_LoadCookiesFileThenLegacyAnyCall ==
  ReturnedOnSteadyFile => ReturnsFileElseLegacyElseEmpty(WellFormed(call.file))

\* C20 amended: a call of loadCookies that finds nothing cached returns the
\* cookies of the session file when the file exists, is well-formed and holds
\* at least one cookie; else the single legacy cookie when one is configured;
\* else the empty list.
C20_LoadCookiesFileThenLegacy ==
  ReturnedOnSteadyFile /\ ~call.cached =>
    ReturnsFileElseLegacyElseEmpty(WellFormed(call.file) /\ Len(call.file.cookies) > 0)

\* a first call preferred the cookies of a well-formed file to a configured
\* legacy cookie
C20_Witness ==
  /\ ReturnedOnSteadyFile /\ ~call.cached
  /\ WellFormed(call.file) /\ Len(call.file.cookies) > 0
  /\ legacyCookie # ""
  /\ loaded = call.file.cookies

\* the legacy cookie when one is configured, else the empty list
FallbackCookies ==
  IF legacyCookie # "" THEN CreateLegacyCookie(legacyCookie) ELSE <<>>

\* the file could not be used at one of the two reads of the call: it was
\* missing or unparsable, had no cookies array or no metadata at the first
\* read, or was missing or unparsable at the second read
UnusableFile ==
  \/ ~WellFormed(call.file)
  \/ call.reread.kind # "json"

\* C32: no call of loadCookies ends by throwing; a call that reads the file
\* and finds it missing, unparsable, without a cookies array or without
\* metadata, or gone at the second read, returns the legacy cookie when one is
\* configured and the empty list otherwise.
C32_LoadCookiesNeverThrows ==
  /\ call.state # "threw"
  /\ (call.state = "returned" /\ ~call.cached /\ UnusableFile)
       => loaded = FallbackCookies

\* the file was well-formed with cookies at the first read and was gone at
\* the second; the call returned the legacy cookie
C32_Witness ==
  /\ call.state = "returned" /\ ~call.cached
  /\ WellFormed(call.file) /\ Len(call.file.cookies) > 0
  /\ call.reread.kind = "absent"
  /\ legacyCookie # ""
  /\ loaded = CreateLegacyCookie(legacyCookie)

\* daysOld > 30 (cookie-manager.ts:95-98) for a session with metadata
OlderThan30Days(session) ==
  session.kind = "json" /\ session.metadata = "old"

\* C33: a session file older than 30 days is loaded like a fresh one (a call
\* that reads it returns its cookies), loadCookies never deletes or rewrites
\* the file, and a loaded session older than 30 days is kept as it is.
C33_OldSessionStillUsed ==
  [][ /\ (LoadCookies \/ LoadSessionData) => sessionFile' = sessionFile
      /\ ( /\ call'.state = "returned" /\ ~call'.cached
           /\ call'.reread = call'.file
           /\ WellFormed(call'.file) /\ Len(call'.file.cookies) > 0
           /\ OlderThan30Days(call'.file) )
         => loaded' = call'.file.cookies
      /\ OlderThan30Days(sessionData) => sessionData' = sessionData ]_vars

\* a call has returned the cookies of a file older than 30 days; the file is
\* still in place and the loaded session is that file
C33_Witness ==
  /\ call.state = "returned" /\ ~call.cached
  /\ OlderThan30Days(call.file) /\ Len(call.file.cookies) > 0
  /\ loaded = call.file.cookies
  /\ sessionFile = call.file
  /\ sessionData = call.file
  /\ cookiesLoaded

\* C37: with no legacy cookie configured, a call of loadCookies made while
\* the session file is absent (deleteSession has removed it, or it never
\* existed) returns the empty list.
C37_DeletedSessionNotServed ==
  (call.state = "returned" /\ call.file.kind = "absent" /\ legacyCookie = "")
    => loaded = <<>>

(***************************************************************************)
(* Properties of the request filter, checked under SpecFilter.             *)
(***************************************************************************)
\* C29: whatever the target URL, the handler lets the request of the main
\* document through, and the navigation to the target does not fail.
C29_FilterNeverAbortsNavigation ==
  /\ request.isNavigation => verdict = "continue"
  /\ navigation # "failed"

(***************************************************************************)
(* Properties of the table of findings, checked under SpecFinding.         *)
(***************************************************************************)
\* C39: a call of getFindings returns every finding of the table whose
\* expiresAt is still ahead and none whose expiresAt has passed, and no
\* finding whose expiresAt has passed is in the table when
\* deleteExpiredFindings has run.
C39_FindingsListedUntilExpiry ==
  /\ listed.at # NoTime =>
       \A row \in findingRows :
         /\ row.expiresAt > listed.at => row \in listed.returned
         /\ row.expiresAt < listed.at => row \notin listed.returned
  /\ sweptAt # NoTime => \A row \in findingRows : ~(row.expiresAt < sweptAt)

====
